---- MODULE Spec2Model ----
(***************************************************************************)
(* Record/replay browser extension.                                        *)
(*                                                                         *)
(* Orchestrator (side panel, class Recorder): src/unnamed/part_003         *)
(* Executor (content script, object recorder): src/unnamed/part_000        *)
(*                                                                         *)
(* The module holds one state machine per subsystem:                       *)
(*   SpecReplay   the replay engine of the orchestrator                    *)
(*   SpecRun      a replay that runs to its end, every action succeeding   *)
(*   SpecSend     one call of Recorder.sendMessageToContentScript          *)
(*   SpecResolve  the calls of Recorder.resolveLocator                     *)
(*   SpecCapture  the step capture engine of the executor                  *)
(*   SpecNavigate the capture engine with clicks and URL changes           *)
(*   SpecUrl      the navigation observer on the pages of the chat site    *)
(*   SpecClick    the capture engine with clicks on elements of all kinds  *)
(*   SpecInject   the injections of content.js into the recorded page     *)
(*   SpecListen   the message listener of the executor                     *)
(*   SpecType     the listener, with the typing timers firing in the end   *)
(*   SpecFile     the trace files the orchestrator loads                   *)
(*   SpecRoundTrip  the trace files the orchestrator writes, loaded again  *)
(*   SpecLocate   the locator resolver of the executor                     *)
(*   SpecText     the locator resolver on text locators                    *)
(*   SpecSession  the recording sessions of the orchestrator               *)
(*   SpecRelay    the clicks of a replay, from the resolver to the click   *)
(*   SpecPush     the capture handlers and their pushes to the side panel  *)
(* Each specification leaves the variables of the others at their initial  *)
(* values.                                                                 *)
(***************************************************************************)
EXTENDS Integers, Sequences, FiniteSets, Bags, TLC

VARIABLES
  \* ---- orchestrator, replay engine (class Recorder) ----
  isReplaying,          \* this.isReplaying
  isPaused,             \* this.isPaused
  replaySteps,          \* this.replaySteps
  currentReplayStep,    \* this.currentReplayStep
  activeTabId,          \* this.activeTabId
  playBtnDisabled,      \* document.getElementById('playBtn').disabled
  replayControlsShown,  \* replayControls.style.display = 'flex'
  startPc,              \* position of the one startReplay call: "idle" | "query"
  advances,             \* the stepReplay calls suspended in executeAction (a bag)
  \* ---- history of the replay engine (not program state) ----
  requests,             \* stepReplay requests made since the last startReplay
  dispatched,           \* steps handed to executeAction since the last startReplay
  outcome,              \* how executeAction ended, when the last step of the
                        \* engine was its return to stepReplay
  \* ---- orchestrator, one call of sendMessageToContentScript ----
  sendPc,               \* position of the call
  sendMsg,              \* message.type
  sendResult,           \* what the call returned
  recorderActive,       \* window.recorderActive of the page in the tab
  listeners,            \* onMessage listeners registered by content scripts in the page
  \* ---- history of the call (not program state) ----
  injections,           \* chrome.scripting.executeScript calls made
  attempts,             \* chrome.tabs.sendMessage calls made
  tries,                \* how each try (ensure, then send) ended
  waited,               \* the 1000 ms wait has elapsed
  handled,              \* times the executor's listener handled the message
  \* ---- orchestrator, calls of resolveLocator ----
  resolves,             \* per call: the promise, its listener, its timer, its request
  channel,              \* LOCATOR_RESOLVED messages sent by the executor, not yet dispatched
  nowMs,                \* Date.now()
  \* ---- executor, step capture ----
  recorder,             \* the fields of the recorder object
  timer,                \* the pending debounce timer of captureType, if any
  now,                  \* Date.now() in the page, in milliseconds since the script loaded
  field,                \* the current text of the editable element of the page
  href,                 \* window.location.href
  \* ---- history of the capture (not program state) ----
  event,                \* the event whose handler ran last
  burst,                \* the input events since the debounce timer was last armed afresh
  \* ---- orchestrator, trace files ----
  thisSteps,            \* this.steps of the Recorder
  downloaded,           \* the text of the file downloadTrace wrote last
  \* ---- history of the trace files (not program state) ----
  selected,             \* the text of the file whose load was the last step
  \* ---- executor, locator resolution ----
  dom,                  \* the elements of the document, in document order
  resolution,           \* the call of recorder.resolveLocator: its argument, the
                        \* position of its loop, and what it returned
  \* ---- history of the resolution (not program state) ----
  tried,                \* the positions, in the list, of the locators evaluated
  \* ---- executor, message listener and typing replay ----
  page,                 \* the focused element and the input-like elements of the page
  typing,               \* the pending timer of typeCharacterByCharacter, if any
  \* ---- history of the listener (not program state) ----
  request,              \* the message the listener received last
  replies,              \* the sendResponse calls made for that message
  notified,             \* the target's content at each input event dispatched for it
  deliveries,           \* messages the listener received
  \* ---- history of the click capture (not program state) ----
  clicks,               \* click events dispatched
  clicked,              \* event.target of the last click event
  generated,            \* how the call of generateLocators for it ended
  \* ---- orchestrator, recording sessions ----
  thisIsRecording,      \* this.isRecording of the Recorder
  recordPc,             \* position of the one startRecording call
  handlers,             \* the listeners of chrome.runtime.onMessage in the side panel
  binds,                \* functions made by this.handleMessage.bind(this)
  \* ---- history of the sessions (not program state) ----
  sessions,             \* startRecording calls made
  started,              \* the executor received START_RECORDING of the last call
  pushed,               \* the messages the executor sent to the side panel in
                        \* the last step
  \* ---- orchestrator and executor, the click of a replay ----
  clickReplay           \* the selector on its way from LOCATOR_RESOLVED to
                        \* REPLAY_CLICK, and what executeReplayClick did with it

replayVars == <<isReplaying, isPaused, replaySteps, currentReplayStep, activeTabId,
                playBtnDisabled, replayControlsShown, startPc, advances,
                requests, dispatched, outcome>>

sendVars == <<sendPc, sendMsg, sendResult, recorderActive, listeners,
              injections, attempts, tries, waited, handled>>

resolveVars == <<resolves, channel, nowMs>>

captureVars == <<recorder, timer, now, field, href, event, burst>>

fileVars == <<thisSteps, downloaded, selected>>

locateVars == <<dom, resolution, tried>>

listenVars == <<page, typing, request, replies, notified, deliveries>>

clickVars == <<clicks, clicked, generated>>

sessionVars == <<thisIsRecording, recordPc, handlers, binds, sessions, started, pushed>>

vars == <<replayVars, sendVars, resolveVars, captureVars, fileVars, locateVars,
          listenVars, clickVars, sessionVars, clickReplay>>

(***************************************************************************)
(* Bounds of the model.                                                    *)
(***************************************************************************)
\* longest trace a file holds
MaxTrace == 3
\* stepReplay calls that may be in flight together
MaxCalls == 2
\* stepReplay requests followed per replay session
MaxRequests == 3

(***************************************************************************)
(* Values.                                                                 *)
(***************************************************************************)
\* JavaScript null
Null == "null"
\* the id of the one tab of the window
TabId == "tab-1"

\* the steps a trace file may hold: one of each type, and a type step whose
\* text is the empty string (falsy payload)
StepNavigate(url) == [type |-> "navigate", url |-> url]
StepClick(locators) == [type |-> "click", target |-> [locators |-> locators]]
StepType(text) == [type |-> "type", text |-> text]
StepPress(key) == [type |-> "press", key |-> key]

\* the trace of the replay scenario: navigate, click, type, press
Scenario ==
  << StepNavigate("https://a.example/"),
     StepClick(<<[type |-> "data-testid", value |-> "go"]>>),
     StepType("hello"),
     StepPress("Enter") >>

\* n steps of the scenario, repeated cyclically, from its step `start` on
Window(start, n) ==
  [i \in 1..n |-> Scenario[((start + i - 2) % Len(Scenario)) + 1]]

\* the traces a file may hold: the empty trace, the scenario cut to every
\* length up to MaxTrace, the windows of MaxTrace steps that start at its
\* other steps (each step type comes first, and has a successor), and a trace
\* whose first step has a falsy payload
Traces ==
  {Window(1, n) : n \in 0..MaxTrace}
    \cup {Window(start, MaxTrace) : start \in 1..Len(Scenario)}
    \cup {<<StepType(""), Scenario[2]>>}

\* what a selected file holds: text that JSON.parse rejects, or a document
\* with or without a truthy version and with or without a steps array
\* (version 0 stands for a missing or falsy version; hasSteps FALSE for a
\* missing steps member)
Files ==
  {[parses |-> FALSE, version |-> 0, hasSteps |-> FALSE, steps |-> <<>>]}
    \cup {[parses |-> TRUE, version |-> v, hasSteps |-> FALSE, steps |-> <<>>] : v \in {0, 1}}
    \cup {[parses |-> TRUE, version |-> 0, hasSteps |-> TRUE, steps |-> Scenario]}
    \cup {[parses |-> TRUE, version |-> 1, hasSteps |-> TRUE, steps |-> s] : s \in Traces}

\* a stepReplay call suspended at position pc in the action of a step of type
\* `type` (line 124); stale is history: stopReplay has run since the call
\* began
Call(pc, type, stale) == [pc |-> pc, type |-> type, stale |-> stale]

Calls == BagToSet(advances)

\* the suspended calls that wait at position pc
At(pc) == {call \in Calls : call.pc = pc}

\* the calls of bag, all marked stale
Discarded(bag) ==
  LET marked(call) == Call(call.pc, call.type, TRUE)
      fresh(call) == Call(call.pc, call.type, FALSE)
  IN [call \in {marked(c) : c \in BagToSet(bag)} |->
        CopiesIn(call, bag) + CopiesIn(fresh(call), bag)]

\* the last step of the engine was no return of executeAction
NoOutcome == [type |-> "none", result |-> "none", stale |-> FALSE]

\* the executeAction of call ended with result: "ok", "no match" (the
\* locators did not resolve), "no target" (the executor answered success =
\* false), "undelivered" (the messenger gave null) or "threw"
Outcome(call, result) ==
  [type |-> call.type, result |-> result, stale |-> call.stale]

(***************************************************************************)
(* Recorder: constructor                                                   *)
(***************************************************************************)
InitReplay ==
  /\ isReplaying = FALSE
  /\ isPaused = FALSE
  /\ replaySteps = <<>>
  /\ currentReplayStep = 0
  /\ activeTabId = Null
  \* the replay controls as updateReplayUI leaves them for an idle engine
  \* with no trace loaded
  /\ playBtnDisabled = TRUE
  /\ replayControlsShown = FALSE
  /\ startPc = "idle"
  /\ advances = EmptyBag
  /\ requests = 0
  /\ dispatched = 0
  /\ outcome = NoOutcome

counters == <<requests, dispatched>>

(***************************************************************************)
(* Recorder.handleFileSelect: reader.onload                                *)
(***************************************************************************)
\* a check of trace.steps alone
TraceAcceptedAnyVersion(file) ==
  /\ file.parses
  /\ file.hasSteps

\* JSON.parse succeeded and trace.version && trace.steps is truthy
TraceAccepted(file) ==
  /\ file.parses
  /\ file.version # 0
  /\ file.hasSteps

HandleFileSelect(file) ==
  /\ IF TraceAccepted(file)
       THEN /\ replaySteps' = file.steps
            /\ playBtnDisabled' = FALSE
       ELSE UNCHANGED <<replaySteps, playBtnDisabled>>
  /\ UNCHANGED <<isReplaying, isPaused, currentReplayStep, activeTabId,
                 replayControlsShown, startPc, advances, counters>>
  /\ outcome' = NoOutcome

(***************************************************************************)
(* Recorder.updateReplayUI and Recorder.stopReplay                         *)
(***************************************************************************)
\* updateReplayUI, for the values the fields have after the caller's writes
updateReplayUI(replaying, steps) ==
  IF replaying
    THEN /\ playBtnDisabled' = TRUE
         /\ replayControlsShown' = TRUE
    ELSE /\ playBtnDisabled' = (Len(steps) = 0)
         /\ replayControlsShown' = FALSE

stopReplay ==
  /\ isReplaying' = FALSE
  /\ isPaused' = FALSE
  /\ currentReplayStep' = 0
  /\ updateReplayUI(FALSE, replaySteps)

\* stopReplay, when the calls of bag stay suspended
stopReplayLeaving(bag) ==
  /\ stopReplay
  /\ advances' = Discarded(bag)

engine == <<isReplaying, isPaused, currentReplayStep, playBtnDisabled, replayControlsShown>>

(***************************************************************************)
(* Recorder.startReplay                                                    *)
(***************************************************************************)
\* the play button is clicked: the code up to await chrome.tabs.query
StartReplay ==
  /\ ~playBtnDisabled
  /\ startPc = "idle"
  /\ IF Len(replaySteps) = 0
       THEN UNCHANGED <<engine, replaySteps, activeTabId, startPc, advances, counters>>
       ELSE /\ isReplaying' = TRUE
            /\ currentReplayStep' = 0
            /\ isPaused' = FALSE
            /\ startPc' = "query"
            /\ requests' = 0
            /\ dispatched' = 0
            /\ UNCHANGED <<replaySteps, activeTabId, playBtnDisabled,
                           replayControlsShown, advances>>
  /\ outcome' = NoOutcome

\* chrome.tabs.query settles: with a tab, with no tab, or by rejecting
StartReplayTabs(result) ==
  /\ startPc = "query"
  /\ startPc' = "idle"
  /\ CASE result = "tab" ->
            /\ activeTabId' = TabId
            /\ updateReplayUI(isReplaying, replaySteps)
            /\ UNCHANGED <<isReplaying, isPaused, currentReplayStep>>
            /\ UNCHANGED advances
       [] result = "none" ->
            UNCHANGED <<activeTabId, engine, advances>>
       [] result = "rejects" ->
            /\ stopReplayLeaving(advances)
            /\ UNCHANGED activeTabId
  /\ UNCHANGED <<replaySteps, counters>>
  /\ outcome' = NoOutcome

\* the stop button is clicked
StopReplay ==
  /\ replayControlsShown
  /\ stopReplayLeaving(advances)
  /\ UNCHANGED <<replaySteps, activeTabId, startPc, counters>>
  /\ outcome' = NoOutcome

(***************************************************************************)
(* Recorder.stepReplay                                                     *)
(***************************************************************************)
\* the cursor moves on by two steps
AdvanceCursorTwice(i) == i + 2

\* line 138: this.currentReplayStep++
AdvanceCursor(i) == i + 1

\* lines 136-148: the part of stepReplay after await this.executeAction(step)
\* returned normally, when the calls of bag stay suspended
FinishAdvance(bag) ==
  LET next == AdvanceCursor(currentReplayStep)
  IN IF next >= Len(replaySteps)
       THEN stopReplayLeaving(bag)
       ELSE /\ currentReplayStep' = next
            /\ advances' = bag
            /\ UNCHANGED <<isReplaying, isPaused, playBtnDisabled, replayControlsShown>>

\* executeAction up to its first suspension: the position the call waits at,
\* or "returned" when the action has nothing to wait for
FirstSuspension(step) ==
  CASE step.type = "navigate" -> IF step.url # "" THEN "tabsUpdate" ELSE "returned"
    [] step.type = "click" -> "resolving"
    [] step.type = "type" -> IF step.text # "" THEN "sending" ELSE "returned"
    [] step.type = "press" -> IF step.key # "" THEN "sending" ELSE "returned"
    [] OTHER -> "returned"

\* the step button is clicked: stepReplay up to the first suspension of
\* executeAction
StepReplay ==
  /\ replayControlsShown
  /\ BagCardinality(advances) < MaxCalls
  /\ requests < MaxRequests
  /\ requests' = requests + 1
  /\ IF ~isReplaying
       THEN /\ outcome' = NoOutcome
            /\ UNCHANGED <<engine, advances, dispatched>>
       ELSE IF currentReplayStep >= Len(replaySteps)
         THEN /\ stopReplayLeaving(advances)
              /\ outcome' = NoOutcome
              /\ UNCHANGED dispatched
         ELSE LET step == replaySteps[currentReplayStep + 1]
                  pc == FirstSuspension(step)
                  call == Call(pc, step.type, FALSE)
              IN /\ dispatched' = dispatched + 1
                 /\ IF pc = "returned"
                      THEN /\ FinishAdvance(advances)
                           /\ outcome' = Outcome(call, "ok")
                      ELSE /\ advances' = advances (+) SetToBag({call})
                           /\ outcome' = NoOutcome
                           /\ UNCHANGED engine
  /\ UNCHANGED <<replaySteps, activeTabId, startPc>>

\* call moves on to position pc
Moves(call, pc) ==
  /\ advances' = (advances (-) SetToBag({call}))
                   (+) SetToBag({Call(pc, call.type, call.stale)})
  /\ outcome' = NoOutcome
  /\ UNCHANGED engine

\* the executeAction of call returns to stepReplay with result
Returns(call, result) ==
  /\ outcome' = Outcome(call, result)
  /\ FinishAdvance(advances (-) SetToBag({call}))

\* the executeAction of call throws: the catch of stepReplay (lines 150-153)
Throws(call) ==
  /\ outcome' = Outcome(call, "threw")
  /\ stopReplayLeaving(advances (-) SetToBag({call}))

\* executeNavigation: chrome.tabs.update settles
TabsUpdateSettles(call, ok) ==
  /\ call \in At("tabsUpdate")
  /\ IF ok THEN Moves(call, "settle") ELSE Throws(call)
  /\ UNCHANGED <<replaySteps, activeTabId, startPc, counters>>

\* executeNavigation: the 3000 ms wait is over
NavigationSettled(call) ==
  /\ call \in At("settle")
  /\ Returns(call, "ok")
  /\ UNCHANGED <<replaySteps, activeTabId, startPc, counters>>

\* executeClick: await this.resolveLocator(locators) gives a selector or null
LocatorSettles(call, selector) ==
  /\ call \in At("resolving")
  /\ IF selector # Null THEN Moves(call, "sending") ELSE Returns(call, "no match")
  /\ UNCHANGED <<replaySteps, activeTabId, startPc, counters>>

\* what sendMessageToContentScript gives executeClick, executeType and
\* executeKeyPress: {success: true}, {success: false} or null
ResponseResult(response) ==
  CASE response = "success" -> "ok"
    [] response = "failure" -> "no target"
    [] OTHER -> "undelivered"

\* executeClick, executeType, executeKeyPress: await
\* this.sendMessageToContentScript(...) settles
ResponseSettles(call, response) ==
  /\ call \in At("sending")
  /\ Returns(call, ResponseResult(response))
  /\ UNCHANGED <<replaySteps, activeTabId, startPc, counters>>

Responses == {"success", "failure", Null}


(***************************************************************************)
(* Recorder.sendMessageToContentScript and                                 *)
(* Recorder.ensureContentScriptInjected                                    *)
(***************************************************************************)
\* the message types of the cross-context protocol (part_000, lines 897-932)
MessageTypes ==
  {"START_RECORDING", "STOP_RECORDING", "GET_STEPS", "RESOLVE_LOCATOR",
   "REPLAY_CLICK", "REPLAY_TYPE", "REPLAY_KEY_PRESS"}

InitSend ==
  /\ sendPc = "idle"
  /\ sendMsg = Null
  /\ sendResult = "pending"
  /\ recorderActive = FALSE
  /\ listeners = 0
  /\ injections = 0
  /\ attempts = 0
  /\ tries = <<>>
  /\ waited = FALSE
  /\ handled = 0

\* the call retries after every failure
SendNextRetrying(pc, ok) ==
  CASE pc \in {"inject1", "inject2"} -> IF ok THEN (IF pc = "inject1" THEN "send1" ELSE "wait")
                                                ELSE "inject2"
    [] pc = "wait" -> "send2"
    [] pc \in {"send1", "send2"} -> IF ok THEN "returned" ELSE "inject2"

\* the position after the await at position pc settled, ok or by throwing:
\*   "inject1"  line 387, await this.ensureContentScriptInjected()
\*   "send1"    line 389, await chrome.tabs.sendMessage(...)
\*   "inject2"  line 398, await this.ensureContentScriptInjected()
\*   "wait"     line 399, the 1000 ms wait
\*   "send2"    line 401, await chrome.tabs.sendMessage(...)
\*   "returned" lines 391 and 403; "returnedNull" line 406
SendNext(pc, ok) ==
  CASE pc = "inject1" -> IF ok THEN "send1" ELSE "inject2"
    [] pc = "send1" -> IF ok THEN "returned" ELSE "inject2"
    [] pc = "inject2" -> IF ok THEN "wait" ELSE "returnedNull"
    [] pc = "wait" -> "send2"
    [] pc = "send2" -> IF ok THEN "returned" ELSE "returnedNull"

\* the try that the await at pc belongs to ends when the call leaves the try
\* block (lines 383-392) or the retry block (lines 396-407)
EndsTry(pc, ok) == (pc \in {"send1", "send2"}) \/ ~ok

\* a caller calls sendMessageToContentScript(message)
SendMessageToContentScript(type) ==
  /\ sendPc \in {"idle", "returned", "returnedNull"}
  /\ sendPc' = "inject1"
  /\ sendMsg' = type
  /\ sendResult' = "pending"
  /\ injections' = 0
  /\ attempts' = 0
  /\ tries' = <<>>
  /\ waited' = FALSE
  /\ handled' = 0
  /\ UNCHANGED <<recorderActive, listeners>>

\* ensureContentScriptInjected: chrome.scripting.executeScript settles. When
\* it ran the content script, the script returns at once if
\* window.recorderActive is set (part_000, lines 6-11), and else sets it and
\* registers its listeners
EnsureContentScriptInjected(ok) ==
  /\ sendPc \in {"inject1", "inject2"}
  /\ injections' = injections + 1
  /\ IF ok /\ ~recorderActive
       THEN /\ recorderActive' = TRUE
            /\ listeners' = listeners + 1
       ELSE UNCHANGED <<recorderActive, listeners>>
  /\ sendPc' = SendNext(sendPc, ok)
  /\ tries' = IF EndsTry(sendPc, ok) THEN Append(tries, "failed") ELSE tries
  /\ sendResult' = IF SendNext(sendPc, ok) = "returnedNull" THEN Null ELSE sendResult
  /\ UNCHANGED <<sendMsg, attempts, waited, handled>>

\* line 399: the 1000 ms wait is over
RetryWaitElapsed ==
  /\ sendPc = "wait"
  /\ sendPc' = SendNext(sendPc, TRUE)
  /\ waited' = TRUE
  /\ UNCHANGED <<sendMsg, sendResult, recorderActive, listeners, injections, attempts,
                 tries, handled>>

\* chrome.tabs.sendMessage settles. The message is delivered only to a page
\* that holds a listener; the promise resolves with the listener's response
\* (success true or false) when the response arrives, and rejects when there
\* is no receiver or the channel closes before the response
TabsSendMessage(delivered, answered, success) ==
  /\ sendPc \in {"send1", "send2"}
  /\ delivered => listeners > 0
  /\ answered => delivered
  /\ attempts' = attempts + 1
  /\ handled' = IF delivered THEN handled + 1 ELSE handled
  /\ sendPc' = SendNext(sendPc, answered)
  /\ tries' = Append(tries, IF answered THEN "ok" ELSE "failed")
  /\ sendResult' =
       CASE SendNext(sendPc, answered) = "returned" ->
              IF success THEN "success" ELSE "failure"
         [] SendNext(sendPc, answered) = "returnedNull" -> Null
         [] OTHER -> sendResult
  /\ UNCHANGED <<sendMsg, recorderActive, listeners, injections, waited>>

\* the page of the tab is unloaded (a navigation): the next page starts
\* without the content script
PageUnloads ==
  /\ recorderActive
  /\ recorderActive' = FALSE
  /\ listeners' = 0
  /\ UNCHANGED <<sendPc, sendMsg, sendResult, injections, attempts, tries, waited, handled>>


(***************************************************************************)
(* Recorder.resolveLocator and the executor's answer to RESOLVE_LOCATOR    *)
(***************************************************************************)
MaxResolves == 2     \* calls of resolveLocator in one behaviour
MaxClock == 1        \* milliseconds that Date.now() advances
MaxInFlight == 2     \* LOCATOR_RESOLVED messages waiting to be dispatched

Selector == "[data-testid=\"go\"]"

\* what recorder.resolveLocator(locators) of the executor returns
Selectors == {Null, Selector}

\* no LOCATOR_RESOLVED message with the call's id has arrived
NoneYet == [seen |-> FALSE, timely |-> FALSE, selector |-> Null]

FreeCall ==
  [state |-> "free", messageId |-> 0, value |-> Null, listening |-> FALSE,
   timer |-> FALSE, delivery |-> "done", first |-> NoneYet]

\* lines 236-260: the promise is pending, handleResponse is registered, the
\* request is handed to sendMessageToContentScript (not awaited) and the
\* timer is armed
NewCall(id) ==
  [state |-> "pending", messageId |-> id, value |-> Null, listening |-> TRUE,
   timer |-> TRUE, delivery |-> "sending", first |-> NoneYet]

InitResolve ==
  /\ resolves = [c \in 1..MaxResolves |-> FreeCall]
  /\ channel = {}
  /\ nowMs = 0

\* resolve(v) of a promise settles it with the last value passed
SettleLast(call, v) == [call EXCEPT !.state = "settled", !.value = v]

\* resolve(v) of a promise: the first call settles it, later calls do nothing
Settle(call, v) ==
  IF call.state = "pending" THEN [call EXCEPT !.state = "settled", !.value = v] ELSE call

\* line 241: message.type === 'LOCATOR_RESOLVED' && message.messageId === messageId
Matches(call, message) ==
  message.type = "LOCATOR_RESOLVED" /\ message.messageId = call.messageId

\* history: the first LOCATOR_RESOLVED message with the call's id that reached
\* the orchestrator, with its selector, timely when the timer had not fired
Noted(call, message) ==
  IF call.state # "free" /\ Matches(call, message) /\ ~call.first.seen
    THEN [call EXCEPT !.first = [seen |-> TRUE, timely |-> call.timer,
                                 selector |-> message.selector]]
    ELSE call

\* lines 240-245, handleResponse
HandleResponse(call, message) ==
  IF call.listening /\ Matches(call, message)
    THEN Settle([call EXCEPT !.listening = FALSE], message.selector)
    ELSE call

ResolveLocator ==
  /\ \E c \in 1..MaxResolves :
       /\ resolves[c].state = "free"
       /\ \A b \in 1..(c - 1) : resolves[b].state # "free"
       /\ resolves' = [resolves EXCEPT ![c] = NewCall(nowMs)]
  /\ UNCHANGED <<channel, nowMs>>

Tick ==
  /\ nowMs < MaxClock
  /\ nowMs' = nowMs + 1
  /\ UNCHANGED <<resolves, channel>>

\* one try of sendMessageToContentScript for the call's RESOLVE_LOCATOR ends.
\* A delivered request makes the executor compute the selector and send
\* LOCATOR_RESOLVED with the request's messageId (part_000, lines 909-919),
\* unless resolving throws or that send fails; a try that got no response is
\* followed by the retry, once
DeliveryEnds(c, delivered, answered, emits, selector) ==
  /\ resolves[c].delivery \in {"sending", "retrying"}
  /\ answered => delivered
  /\ emits => delivered
  /\ channel' = IF emits
                  THEN channel \cup {[type |-> "LOCATOR_RESOLVED",
                                       messageId |-> resolves[c].messageId,
                                       selector |-> selector]}
                  ELSE channel
  /\ Cardinality(channel') <= MaxInFlight
  /\ resolves' = [resolves EXCEPT ![c].delivery =
                    IF ~answered /\ resolves[c].delivery = "sending"
                      THEN "retrying" ELSE "done"]
  /\ UNCHANGED nowMs

\* chrome.runtime.onMessage dispatches one message to the registered listeners
OnMessage(message) ==
  /\ message \in channel
  /\ channel' = channel \ {message}
  /\ resolves' = [c \in 1..MaxResolves |->
                    HandleResponse(Noted(resolves[c], message), message)]
  /\ UNCHANGED nowMs

\* lines 256-259: the 5000 ms timer of the call fires
ResolveTimeout(c) ==
  /\ resolves[c].timer
  /\ resolves' = [resolves EXCEPT ![c] =
                    Settle([@ EXCEPT !.timer = FALSE, !.listening = FALSE], Null)]
  /\ UNCHANGED <<channel, nowMs>>

(***************************************************************************)
(* The executor's recorder object: locator generation                      *)
(***************************************************************************)
\* an element of the page: tagName, the attributes role, name, aria-label,
\* data-testid, id and title, the trimmed textContent, the pathname of href,
\* the class names, the tagNames of the sibling elements before and after
\* it, its ancestors (as nodes, the parent first), and aria-haspopup. The empty string is
\* an absent attribute. svg tells an element of an SVG image, whose className
\* and href are objects (SVGAnimatedString), not strings
Element(tag, role, aria, text, testid, id, title) ==
  [tag |-> tag, role |-> role, name |-> "", aria |-> aria, text |-> text,
   testid |-> testid, id |-> id, href |-> "", title |-> title, cls |-> <<>>,
   before |-> <<>>, after |-> <<>>, ancestors |-> <<>>,
   haspopup |-> "", svg |-> FALSE]

\* the ids of the model, spelled as their characters; "radix-r1" stands for
\* the id radix-, an opening guillemet, r1, a closing guillemet, whose
\* guillemets are the characters "laquo" and "raquo"
chars(id) ==
  CASE id = "go-btn" -> <<"g", "o", "-", "b", "t", "n">>
    [] id = "go" -> <<"g", "o">>
    [] id = "mui-1" -> <<"m", "u", "i", "-", "1">>
    [] id = "a1b2c3d4e5" -> <<"a", "1", "b", "2", "c", "3", "d", "4", "e", "5">>
    [] id = "a1b2c3d4e5f6g7h8" -> <<"a", "1", "b", "2", "c", "3", "d", "4", "e", "5", "f", "6", "g", "7", "h", "8">>
    [] id = "abcdefghij0123456789" -> <<"a", "b", "c", "d", "e", "f", "g", "h", "i", "j", "0", "1", "2", "3", "4", "5", "6", "7", "8", "9">>
    [] id = "react-select-2" -> <<"r", "e", "a", "c", "t", "-", "s", "e", "l", "e", "c", "t", "-", "2">>
    [] id = "chakra-1" -> <<"c", "h", "a", "k", "r", "a", "-", "1">>
    [] id = "rc-1" -> <<"r", "c", "-", "1">>
    [] id = "0a1b2c3d-4e5f-6a7b-8c9d" -> <<"0", "a", "1", "b", "2", "c", "3", "d", "-", "4", "e", "5", "f", "-", "6", "a", "7", "b", "-", "8", "c", "9", "d">>
    [] id = "radix-r1" -> <<"r", "a", "d", "i", "x", "-", "laquo", "r", "1", "raquo">>
    [] OTHER -> <<>>

\* the character classes [a-f0-9] and [a-zA-Z0-9]
HexDigits ==
  {"a", "b", "c", "d", "e", "f", "0", "1", "2", "3", "4", "5", "6", "7", "8", "9"}
Alphanumerics ==
  HexDigits \cup {"g", "h", "i", "j", "k", "l", "m", "n", "o", "p", "q", "r", "s", "t",
                  "u", "v", "w", "x", "y", "z",
                  "A", "B", "C", "D", "E", "F", "G", "H", "I", "J", "K", "L", "M", "N",
                  "O", "P", "Q", "R", "S", "T", "U", "V", "W", "X", "Y", "Z"}

\* /^[class]{n,}$/
AtLeast(s, class, n) == Len(s) >= n /\ \A i \in 1..Len(s) : s[i] \in class

\* /^prefix/
StartsWith(s, prefix) == Len(s) >= Len(prefix) /\ SubSeq(s, 1, Len(prefix)) = prefix

\* /radix-<laquo>[^<raquo>]+<raquo>/, anywhere in the id
HasRadix(s) ==
  \E i \in 1..Len(s), j \in 1..Len(s) :
    /\ i + 6 <= Len(s)
    /\ SubSeq(s, i, i + 6) = <<"r", "a", "d", "i", "x", "-", "laquo">>
    /\ j > i + 7
    /\ s[j] = "raquo"
    /\ \A k \in (i + 7)..(j - 1) : s[k] # "raquo"

\* lines 163-176
isDynamicId(id) ==
  LET s == chars(id)
  IN \/ HasRadix(s)
     \/ AtLeast(s, HexDigits, 8)
     \/ AtLeast(s, Alphanumerics, 20)
     \/ AtLeast(s, HexDigits \cup {"-"}, 20)
     \/ StartsWith(s, <<"r", "e", "a", "c", "t", "-", "s", "e", "l", "e", "c", "t">>)
     \/ StartsWith(s, <<"m", "u", "i", "-">>)
     \/ StartsWith(s, <<"c", "h", "a", "k", "r", "a", "-">>)
     \/ StartsWith(s, <<"r", "c", "-">>)

\* the texts of 100 characters and more (line 233)
LongTexts == {"<a text of 100 characters>"}

\* strings that, in lower case, include 'web search' or 'search the web'
WebSearchWords == {"Web search", "web search", "Search the web"}

\* test ids that include 'web-search' or 'search-web'
WebSearchIds == {"web-search-toggle"}

\* strings that, in lower case, include 'plus' or 'add'
PlusWords == {"Add", "Plus"}

Opt(cond, x) == IF cond THEN <<x>> ELSE <<>>

\* line 185
nameOf(e) == IF e.name # "" THEN e.name ELSE IF e.aria # "" THEN e.aria ELSE e.text

\* lines 298-330
isWebSearchButton(e) ==
  \/ e.text \in WebSearchWords
  \/ e.aria \in WebSearchWords
  \/ e.title \in WebSearchWords
  \/ e.testid \in WebSearchIds

\* lines 286-295
isComposerPlusButton(e) ==
  \/ e.testid = "composer-plus-btn"
  \/ \E i \in 1..Len(e.cls) : e.cls[i] = "composer-btn"
  \/ e.aria \in PlusWords

\* the selectors, as the parts of the selector string:
\*   [data-testid="v"], [title="v"]       AttrSelector("data-testid", v), ...
\*   #v                                   IdSelector(v)
\*   a[href*="p"]                         HrefSelector(p)
\*   [role="r"][name="n"]                 RoleSelector(r, "name", n)
\*   tag.c1.c2[href*="h"][title="t"]      the record of generateCSSSelector
AttrSelector(attr, v) == [sel |-> "attr", attr |-> attr, value |-> v]
IdSelector(v) == [sel |-> "id", value |-> v]
HrefSelector(p) == [sel |-> "href", value |-> p]
RoleSelector(r, attr, n) == [sel |-> "role", role |-> r, attr |-> attr, value |-> n]

\* the class names of one or two characters (line 344)
ShortClasses == {"p4"}

\* lines 344-346: the first three class names longer than two characters
meaningfulClasses(cls) ==
  SubSeq(SelectSeq(cls, LAMBDA c : c \notin ShortClasses), 1,
         IF Len(SelectSeq(cls, LAMBDA c : c \notin ShortClasses)) < 3
           THEN Len(SelectSeq(cls, LAMBDA c : c \notin ShortClasses)) ELSE 3)

\* line 352: element.href.split('/').pop(), on the paths of the model
LastSegment(path) ==
  CASE path = "/next" -> "next"
    [] path = "/c/1" -> "1"
    [] OTHER -> ""

\* lines 332-360
generateCSSSelector(e) ==
  IF e.testid # "" THEN AttrSelector("data-testid", e.testid)
  ELSE IF e.id # "" /\ ~isDynamicId(e.id) THEN IdSelector(e.id)
  ELSE [sel |-> "tag", tag |-> e.tag, cls |-> meaningfulClasses(e.cls),
        href |-> LastSegment(e.href), title |-> e.title]

\* a node of the document tree: its tagName and the tagNames of the sibling
\* elements before and after it
Node(tag, before, after) == [tag |-> tag, before |-> before, after |-> after]

\* the element and its ancestors, the element first
nodesOf(e) == <<Node(e.tag, e.before, e.after)>> \o e.ancestors

\* line 374
maxDepth == 5

\* the position counts the siblings of every tag
positionAmongAll(n) ==
  IF n.before = <<>> /\ n.after = <<>> THEN 0 ELSE 1 + Len(n.before)

\* lines 379-389: the number in the [position] predicate of the node, 0 for
\* a node that gets no predicate
position(n) ==
  IF n.before = <<>> /\ n.after = <<>>
    THEN 0
    ELSE 1 + Cardinality({i \in 1..Len(n.before) : n.before[i] = n.tag})

\* lines 371-394: the steps of the path, the outermost first; a step is the
\* node's tag and its position
pathSteps(nodes) ==
  LET depth == IF Len(nodes) < maxDepth THEN Len(nodes) ELSE maxDepth
  IN [k \in 1..depth |-> [tag |-> nodes[depth - k + 1].tag,
                          position |-> position(nodes[depth - k + 1])]]

\* lines 362-397; nth is the position of the element itself
generateSimpleXPath(e) ==
  IF e.testid # "" THEN [xpath |-> "attr", attr |-> "data-testid", value |-> e.testid]
  ELSE IF e.id # "" /\ ~isDynamicId(e.id) THEN [xpath |-> "attr", attr |-> "id", value |-> e.id]
  ELSE [xpath |-> "path", tag |-> e.tag, nth |-> position(Node(e.tag, e.before, e.after)),
        steps |-> pathSteps(nodesOf(e))]

\* the values of element.href that new URL() does not parse
Unparseable == {"http://["}

\* the statements of generateLocators outside a try block that throw:
\* line 212, new URL(href), and line 292 of isComposerPlusButton,
\* className.includes, reached when the test id is not 'composer-plus-btn'
generateLocatorsThrows(e) ==
  \/ e.tag = "A" /\ e.href \in Unparseable
  \/ e.svg /\ e.testid # "composer-plus-btn"

\* generateCSSSelector throws at line 344, className.split, or line 352,
\* href.split; lines 256-266 catch it
cssThrows(e) ==
  /\ e.testid = ""
  /\ ~(e.id # "" /\ ~isDynamicId(e.id))
  /\ e.svg

\* the text locator pushed first
generateLocatorsTextFirst(e) ==
  Opt(e.text # "" /\ e.text \notin LongTexts, [type |-> "text", content |-> e.text]) \o
  Opt(e.testid # "", [type |-> "data-testid", value |-> e.testid]) \o
  <<[type |-> "css", selector |-> generateCSSSelector(e)]>> \o
  <<[type |-> "xpath", path |-> generateSimpleXPath(e)]>>

\* lines 179-283
generateLocators(e) ==
  Opt(e.role # "" /\ nameOf(e) # "",
      [type |-> "role", role |-> e.role, name |-> nameOf(e)]) \o
  Opt(e.testid # "", [type |-> "data-testid", value |-> e.testid]) \o
  Opt(e.id # "" /\ ~isDynamicId(e.id), [type |-> "id", value |-> e.id]) \o
  Opt(e.tag = "A" /\ e.href \notin {"", "/"}, [type |-> "href", path |-> e.href]) \o
  Opt(e.title # "", [type |-> "title", value |-> e.title]) \o
  Opt(e.text # "" /\ e.text \notin LongTexts, [type |-> "text", content |-> e.text]) \o
  Opt(isWebSearchButton(e),
      [type |-> "web-search", description |-> "Web search button"]) \o
  Opt(isComposerPlusButton(e),
      [type |-> "composer-plus", description |-> "Composer plus button"]) \o
  Opt(~cssThrows(e), [type |-> "css", selector |-> generateCSSSelector(e)]) \o
  <<[type |-> "xpath", path |-> generateSimpleXPath(e)]>>

(***************************************************************************)
(* The executor's recorder object: step capture                            *)
(***************************************************************************)
DebounceMs == 1000   \* the delay of the typing timer
TickMs == 500        \* the step of the model's clock
MaxTicks == 3        \* clock steps in one behaviour
MaxSteps == 3        \* steps held by recorder.steps

\* the texts of the editable element; the empty string is falsy
Texts == {"", "a", "ab"}

\* the URL of the page: host and the part after '/c/' (Null when the URL has none)
StartUrl == [host |-> "a.example", chat |-> Null, path |-> "/"]

\* recorder.lastUrl: null
NoUrl == [host |-> "", chat |-> Null, path |-> ""]

\* the keys of keydown events: two special keys and a plain one
Keys == {"Enter", "Tab", "a"}

\* the event targets: the editable element and a button
Targets == {"field", "button"}

\* line 132
specialKeys == {"Enter", "Tab", "Escape", "ArrowUp", "ArrowDown", "ArrowLeft", "ArrowRight"}

\* lines 106 and 143: INPUT, TEXTAREA or contentEditable
Editable(target) == target = "field"

NoTimer == [armed |-> FALSE, text |-> "", due |-> 0]

\* the events the properties speak of; every other event is "other"
NoEvent == "other"

NoBurst == [count |-> 0, at |-> 0, text |-> "", tight |-> TRUE]

\* the burst is remembered while its timer is pending, and through the event
\* that ends it
Kept(t, b) == IF t.armed THEN b ELSE NoBurst

\* lines 13-20
InitCapture ==
  /\ recorder = [steps |-> <<>>, startTime |-> 0, isRecording |-> FALSE,
                 typingTimeout |-> FALSE, lastTypedText |-> "", lastUrl |-> NoUrl,
                 lastRecordedEvent |-> Null]
  /\ timer = NoTimer
  /\ now = 0
  /\ field = ""
  /\ href = StartUrl
  /\ event = NoEvent
  /\ burst = NoBurst

\* the step is stamped with the clock value itself
StampedAbsolute(rec, step) == [t |-> now] @@ step

\* lines 63-67: {t: Date.now() - this.startTime, ...step}
Stamped(rec, step) == [t |-> now - rec.startTime] @@ step

\* addStep without line 61, if (!this.isRecording) return
addStepUnguarded(rec, step) ==
  [rec EXCEPT !.steps = Append(@, Stamped(rec, step)),
              !.lastRecordedEvent = step.type]

\* lines 60-79; the RECORD_STEP message goes to the side panel and changes
\* nothing in the page
addStep(rec, step) ==
  IF ~rec.isRecording
    THEN rec
    ELSE [rec EXCEPT !.steps = Append(@, Stamped(rec, step)),
                     !.lastRecordedEvent = step.type]

\* the timer callback records whatever text it holds
EmitsAlways(text, last) == TRUE

\* lines 116 and 145: text && text.length > 0 && text !== this.lastTypedText
Emits(text, last) == text # "" /\ text # last

\* lines 117-122 and 146-151
typeCaptured(rec, text) == addStep([rec EXCEPT !.lastTypedText = text], StepType(text))

\* clearTimeout is left out
ClearTimeoutNoop(t) == t

\* clearTimeout(this.typingTimeout): the pending timer, if any, is the one
\* typingTimeout names
ClearTimeout(t) == NoTimer

\* the handler leaves at most MaxSteps steps
Bounded == Len(recorder'.steps) <= MaxSteps

\* startRecording without line 26, this.steps = []
StartRecordingKeepsSteps ==
  /\ recorder' = addStep([recorder EXCEPT !.isRecording = TRUE,
                                          !.startTime = now,
                                          !.lastUrl = href,
                                          !.lastRecordedEvent = Null],
                         StepNavigate(href))
  /\ Bounded
  /\ event' = "start"
  /\ UNCHANGED <<timer, now, field, href, burst>>

\* lines 22-41, called by the listener for START_RECORDING
StartRecording ==
  /\ recorder' = addStep([recorder EXCEPT !.isRecording = TRUE,
                                          !.startTime = now,
                                          !.steps = <<>>,
                                          !.lastUrl = href,
                                          !.lastRecordedEvent = Null],
                         StepNavigate(href))
  /\ event' = "start"
  /\ UNCHANGED <<timer, now, field, href, burst>>

\* lines 43-58, called by the listener for STOP_RECORDING
StopRecording ==
  /\ recorder' = [recorder EXCEPT !.isRecording = FALSE, !.typingTimeout = FALSE]
  /\ timer' = IF recorder.typingTimeout THEN ClearTimeout(timer) ELSE timer
  /\ event' = "other"
  /\ burst' = NoBurst
  /\ UNCHANGED <<now, field, href>>

\* an input event on target, which changed the editable element's text to
\* text when the target is that element; lines 103-126
CaptureType(target, text) ==
  /\ field' = IF Editable(target) THEN text ELSE field
  /\ Editable(target) => text # field
  /\ IF recorder.isRecording /\ Editable(target)
       THEN /\ timer' = [armed |-> TRUE, text |-> text, due |-> now + DebounceMs]
            /\ recorder' = [recorder EXCEPT !.typingTimeout = TRUE]
            /\ burst' = IF timer.armed
                           THEN [count |-> IF burst.count < 2 THEN burst.count + 1 ELSE 2,
                                 at |-> now, text |-> text,
                                 tight |-> burst.tight /\ now - burst.at < DebounceMs]
                           ELSE [count |-> 1, at |-> now, text |-> text, tight |-> TRUE]
       ELSE /\ burst' = Kept(timer, burst)
            /\ UNCHANGED <<timer, recorder>>
  /\ event' = IF recorder.isRecording /\ Editable(target) THEN "input" ELSE "other"
  /\ UNCHANGED <<now, href>>

\* lines 115-124: the timer callback, with the text of the input event that
\* armed it
TypingTimeoutFires ==
  /\ timer.armed
  /\ now >= timer.due
  /\ timer' = NoTimer
  /\ recorder' = IF Emits(timer.text, recorder.lastTypedText)
                   THEN typeCaptured(recorder, timer.text)
                   ELSE recorder
  /\ Bounded
  /\ event' = "timer"
  /\ UNCHANGED <<now, field, href, burst>>

\* lines 137-154: Enter with typingTimeout set
flushed(rec, target) ==
  IF Editable(target) /\ Emits(field, rec.lastTypedText)
    THEN typeCaptured([rec EXCEPT !.typingTimeout = FALSE], field)
    ELSE [rec EXCEPT !.typingTimeout = FALSE]

\* a keydown event on target; lines 129-161
CaptureKeyPress(key, target) ==
  /\ IF recorder.isRecording /\ key \in specialKeys
       THEN IF key = "Enter" /\ recorder.typingTimeout
              THEN /\ timer' = ClearTimeout(timer)
                   /\ recorder' = addStep(flushed(recorder, target), StepPress(key))
              ELSE /\ recorder' = addStep(recorder, StepPress(key))
                   /\ UNCHANGED timer
       ELSE UNCHANGED <<recorder, timer>>
  /\ Bounded
  /\ event' = IF recorder.isRecording /\ key = "Enter" /\ Editable(target) /\ timer.armed
                 THEN "enter" ELSE "other"
  /\ burst' = Kept(timer', burst)
  /\ UNCHANGED <<now, field, href>>

\* a script of the page empties the editable element; no input event
PageClearsField ==
  /\ field # ""
  /\ field' = ""
  /\ event' = "other"
  /\ burst' = Kept(timer, burst)
  /\ UNCHANGED <<recorder, timer, now, href>>

\* time passes; a timer that is due fires before more time passes
TimePasses ==
  /\ now < MaxTicks * TickMs
  /\ ~(timer.armed /\ now >= timer.due)
  /\ now' = now + TickMs
  /\ event' = "other"
  /\ burst' = Kept(timer, burst)
  /\ UNCHANGED <<recorder, timer, field, href>>

(***************************************************************************)
(* The executor: click capture and the navigation observer                 *)
(***************************************************************************)
\* the button of the page that the user clicks
GoButton == Element("BUTTON", "", "", "Go", "go", "", "")

\* a chat page and a page of another site
ChatUrl == [host |-> "chatgpt.com", chat |-> "1", path |-> "/c/1"]
OtherUrl == [host |-> "b.example", chat |-> Null, path |-> "/"]

Urls == {StartUrl, OtherUrl, ChatUrl}

\* a click event on element e; lines 89-100. An exception of
\* generateLocators ends the handler before addStep
CaptureClick(e) ==
  /\ recorder' = IF recorder.isRecording /\ generateLocatorsThrows(e)
                   THEN recorder
                   ELSE addStep(recorder, StepClick(generateLocators(e)))
  /\ Bounded
  /\ event' = "other"
  /\ burst' = Kept(timer, burst)
  /\ UNCHANGED <<timer, now, field, href>>

\* the ids an element of the page may carry
Ids ==
  {"go-btn", "mui-1", "a1b2c3d4e5", "a1b2c3d4e5f6g7h8", "abcdefghij0123456789",
   "react-select-2", "chakra-1", "rc-1", "0a1b2c3d-4e5f-6a7b-8c9d", "radix-r1"}

\* an icon of an SVG image, the same icon as the composer's plus button, a
\* link whose href is no URL, and a link to /next
SvgIcon == [Element("svg", "", "", "", "", "", "") EXCEPT !.svg = TRUE]
SvgPlus == [Element("svg", "", "", "", "composer-plus-btn", "", "") EXCEPT !.svg = TRUE]
BadLink == [Element("A", "", "", "More", "", "", "") EXCEPT !.href = "http://["]
GoodLink == [Element("A", "", "", "Next", "", "", "") EXCEPT !.href = "/next"]

\* a button five levels below the root: the second DIV of a SECTION that
\* follows a NAV, in the MAIN of the BODY
DeepButton ==
  [Element("BUTTON", "", "", "Go", "", "", "") EXCEPT
     !.ancestors = <<Node("DIV", <<"DIV">>, <<>>), Node("SECTION", <<"NAV">>, <<>>),
                     Node("MAIN", <<>>, <<>>), Node("BODY", <<"HEAD">>, <<>>),
                     Node("HTML", <<>>, <<>>)>>]

\* the second of two buttons that follow a SPAN, in the BODY
SecondButton ==
  [Element("BUTTON", "", "", "Go", "", "", "") EXCEPT
     !.before = <<"SPAN", "BUTTON">>, !.after = <<"P">>,
     !.ancestors = <<Node("BODY", <<"HEAD">>, <<>>), Node("HTML", <<>>, <<>>)>>]

\* a link to which every locator type applies
FullLink ==
  [Element("A", "link", "Web search", "Next", "next", "go-btn", "Go now") EXCEPT
     !.href = "/next", !.cls = <<"composer-btn">>]

\* the elements the user clicks: a button for each id, the icons, the links,
\* the buttons inside a tree
ClickTargets ==
  {Element("BUTTON", "", "", "Go", "", id, "") : id \in Ids}
  \cup {SvgIcon, SvgPlus, BadLink, GoodLink, DeepButton, SecondButton, FullLink}

\* no click event yet, and no call of generateLocators
NoElement == Element("", "", "", "", "", "", "")
NotCalled == [threw |-> FALSE, locators |-> <<>>]

MaxClicks == 3       \* click events in one behaviour

InitClick ==
  /\ clicks = 0
  /\ clicked = NoElement
  /\ generated = NotCalled

\* the click event on e, with the outcome of line 94,
\* const locators = this.generateLocators(target)
ClickEvent(e) ==
  /\ clicks < MaxClicks
  /\ clicks' = clicks + 1
  /\ CaptureClick(e)
  /\ clicked' = e
  /\ generated' = IF ~recorder.isRecording THEN NotCalled
                  ELSE IF generateLocatorsThrows(e) THEN [threw |-> TRUE, locators |-> <<>>]
                  ELSE [threw |-> FALSE, locators |-> generateLocators(e)]

\* line 862: url.includes('chatgpt.com') || url.includes('openai.com')
isChatGPT(url) == url.host \in {"chatgpt.com", "openai.com"}

\* lines 863-865
isSameChat(url, lastUrl) ==
  /\ isChatGPT(url)
  /\ lastUrl # NoUrl
  /\ lastUrl.host = "chatgpt.com"
  /\ url.chat = lastUrl.chat

\* the page changes its URL without a reload and the MutationObserver
\* callback runs, lines 856-889; the observer's own lastUrl is the URL before
\* the change
UrlChanges(url) ==
  /\ url # href
  /\ href' = url
  /\ recorder' =
       IF recorder.isRecording /\ isChatGPT(url)
          /\ (isSameChat(url, recorder.lastUrl) \/ recorder.lastRecordedEvent = "press")
         THEN [recorder EXCEPT !.lastUrl = url]
         ELSE IF recorder.isRecording /\ ~isSameChat(url, recorder.lastUrl)
                THEN [addStep(recorder, StepNavigate(url)) EXCEPT !.lastUrl = url]
                ELSE IF isSameChat(url, recorder.lastUrl)
                       THEN [recorder EXCEPT !.lastUrl = url]
                       ELSE recorder
  /\ Bounded
  /\ event' = "url"
  /\ burst' = Kept(timer, burst)
  /\ UNCHANGED <<timer, now, field>>

\* two pages of the chat site that are no chat thread, a second thread, and
\* a page of openai.com; chat is url.split('/c/')[1], Null for undefined
ChatHome == [host |-> "chatgpt.com", chat |-> Null, path |-> "/"]
ChatGpts == [host |-> "chatgpt.com", chat |-> Null, path |-> "/gpts"]
ChatUrl2 == [host |-> "chatgpt.com", chat |-> "2", path |-> "/c/2"]
OpenAiUrl == [host |-> "openai.com", chat |-> Null, path |-> "/"]

ChatSiteUrls == {StartUrl, ChatHome, ChatGpts, ChatUrl, ChatUrl2, OpenAiUrl}

\* the document changes and the URL is the one the observer saw last: the
\* callback does nothing (line 857)
Mutation ==
  /\ event' = "mutation"
  /\ burst' = Kept(timer, burst)
  /\ UNCHANGED <<recorder, timer, now, field, href>>

(***************************************************************************)
(* The executor: injection of content.js into the page                     *)
(***************************************************************************)
MaxInjections == 3   \* chrome.scripting.executeScript calls in one behaviour

\* lines 13-20: the recorder object a copy of the script builds
NewRecorder ==
  [steps |-> <<>>, startTime |-> now, isRecording |-> FALSE,
   typingTimeout |-> FALSE, lastTypedText |-> "", lastUrl |-> NoUrl,
   lastRecordedEvent |-> Null]

\* a copy of the script without its guard
scriptUnguarded(win) ==
  [active |-> TRUE, listeners |-> win.listeners + 1, recorder |-> NewRecorder]

\* one copy of the script: it returns at once when window.recorderActive is
\* set (lines 6-9); else it sets the flag (line 11), builds its recorder
\* (lines 13-20), registers its click, input, keydown and message listeners
\* (lines 847-849 and 893) and sets window.recorder (line 852)
script(win) ==
  IF win.active
    THEN win
    ELSE [active |-> TRUE, listeners |-> win.listeners + 1, recorder |-> NewRecorder]

\* content.js holds two copies of the script, one after the other
contentJs(win) == script(script(win))

\* chrome.scripting.executeScript settles: it ran content.js in the page,
\* or failed
ExecuteScript(ok) ==
  /\ injections < MaxInjections
  /\ injections' = injections + 1
  /\ LET win == contentJs([active |-> recorderActive, listeners |-> listeners,
                            recorder |-> recorder])
     IN IF ok
          THEN /\ recorderActive' = win.active
               /\ listeners' = win.listeners
               /\ recorder' = win.recorder
          ELSE UNCHANGED <<recorderActive, listeners, recorder>>
  /\ event' = "inject"
  /\ burst' = Kept(timer, burst)
  /\ UNCHANGED <<sendPc, sendMsg, sendResult, attempts, tries, waited, handled>>
  /\ UNCHANGED <<timer, now, field, href>>

\* the event goes to each of the n listeners registered for it
RECURSIVE Delivered(_, _, _)
Delivered(n, rec, step) ==
  IF n = 0 THEN rec ELSE Delivered(n - 1, addStep(rec, step), step)

\* the user clicks element e of the page: the document delivers the click
\* event to the registered click listeners (line 847), captureClick
DispatchClick(e) ==
  /\ listeners > 0
  /\ recorder' = Delivered(listeners, recorder, StepClick(generateLocators(e)))
  /\ Bounded
  /\ event' = "click"
  /\ burst' = Kept(timer, burst)
  /\ UNCHANGED <<timer, now, field, href>>

(***************************************************************************)
(* The executor: message listener and typing replay                        *)
(***************************************************************************)
MaxMessages == 3     \* messages received in one behaviour
MaxText == 2         \* characters of the text of a REPLAY_TYPE message

\* the message types of the switch (lines 897-932)
Known ==
  {"START_RECORDING", "STOP_RECORDING", "GET_STEPS", "RESOLVE_LOCATOR",
   "REPLAY_CLICK", "REPLAY_TYPE", "REPLAY_KEY_PRESS"}

\* a message: its type, whether message.locators is a list, and message.text
\* as its characters
Message(type, iterable, text) == [type |-> type, iterable |-> iterable, text |-> text]

NoRequest == Message("", TRUE, <<>>)

\* the characters of the texts typed: a letter and a space
TypeChars == {"h", " "}

TypeTexts == UNION {[1..n -> TypeChars] : n \in 0..MaxText}

\* the messages the page may receive: those of the orchestrator, a
\* RESOLVE_LOCATOR message without locators, and messages of other types
Messages ==
  {Message(type, TRUE, <<>>) :
     type \in {"START_RECORDING", "STOP_RECORDING", "GET_STEPS", "RESOLVE_LOCATOR",
               "REPLAY_CLICK", "REPLAY_KEY_PRESS", "PING", ""}}
  \cup {Message("RESOLVE_LOCATOR", FALSE, <<>>)}
  \cup {Message("REPLAY_TYPE", TRUE, text) : text \in TypeTexts}

\* an element of the page: tagName, the type and placeholder attributes,
\* contentEditable, and its content (value, or textContent) as characters
Input(tag, type, placeholder, editable) ==
  [tag |-> tag, type |-> type, placeholder |-> placeholder,
   contentEditable |-> editable, content |-> <<"x">>]

\* the pages: active is the position of document.activeElement, 0 for the
\* body; elements are in document order
TypePage(active, elements) == [active |-> active, elements |-> elements]

NoInputPage == TypePage(1, <<Input("BUTTON", "", "", "inherit")>>)

TypePages ==
  {NoInputPage,
   TypePage(1, <<Input("TEXTAREA", "", "Message", "inherit")>>),
   TypePage(1, <<Input("BUTTON", "", "", "inherit"),
                 Input("INPUT", "text", "", "inherit"),
                 Input("TEXTAREA", "", "Send a message", "inherit")>>),
   TypePage(0, <<Input("DIV", "", "", "true")>>),
   TypePage(0, <<Input("INPUT", "email", "", "inherit")>>)}

\* lines 733 and 753: tagName INPUT or TEXTAREA, or contentEditable 'true'
isEditable(el) == el.tag \in {"INPUT", "TEXTAREA"} \/ el.contentEditable = "true"

\* lines 734-740: the selectors of inputSelectors, in the order of the list
inputSelects(k, el) ==
  CASE k = 1 -> el.tag = "TEXTAREA" /\ el.placeholder \in {"Message"}
    [] k = 2 -> el.tag = "TEXTAREA" /\ el.placeholder \in {"Send a message"}
    [] k = 3 -> el.tag = "INPUT" /\ el.type = "text"
    [] k = 4 -> el.tag = "TEXTAREA"
    [] k = 5 -> el.tag = "DIV" /\ el.contentEditable = "true"

\* the least number of a set of numbers, 0 when it is empty
Least(S) == IF S = {} THEN 0 ELSE CHOOSE n \in S : \A o \in S : n <= o

\* lines 731-749: the position of inputElement, 0 when the focused element is
\* not editable and no selector of the list finds an element
inputElement(p) ==
  IF p.active # 0 /\ isEditable(p.elements[p.active])
    THEN p.active
    ELSE LET matching(k) == {i \in 1..Len(p.elements) : inputSelects(k, p.elements[i])}
             k == Least({j \in 1..5 : matching(j) # {}})
         IN IF k = 0 THEN 0 ELSE Least(matching(k))

\* the typing timer: the element, the text, and the characters typed so far
NoTyping == [pending |-> FALSE, target |-> 0, text |-> <<>>, index |-> 0]

InitListen ==
  /\ page = NoInputPage
  /\ typing = NoTyping
  /\ request = NoRequest
  /\ replies = <<>>
  /\ notified = <<>>
  /\ deliveries = 0

\* the listener without its default case
unknownDropped(message) == <<>>

\* lines 933-935: the default case of the switch
unknown(message) == <<[success |-> FALSE, error |-> "Unknown message type"]>>

\* lines 937-940: the catch block of the listener
caught(error) == <<[success |-> FALSE, error |-> error]>>

\* the typing starts without clearing the content
startTypingUncleared(p, t, text) ==
  [p EXCEPT !.active = t,
            !.elements[t].content = IF text = <<>> THEN @ ELSE Append(@, text[1])]

\* lines 754-764 and 779-797 with index 0: the content is cleared, the
\* element focused, and the first character, if any, typed
startTyping(p, t, text) ==
  [p EXCEPT !.active = t,
            !.elements[t].content = IF text = <<>> THEN <<>> ELSE <<text[1]>>]

\* the listener handles message; the responses of REPLAY_CLICK and
\* REPLAY_KEY_PRESS tell whether the page had the element; lines 893-941
Listener(message) ==
  /\ deliveries < MaxMessages
  /\ ~typing.pending
  /\ deliveries' = deliveries + 1
  /\ request' = message
  /\ CASE message.type = "START_RECORDING" ->
            /\ StartRecording
            /\ replies' = <<[success |-> TRUE]>>
            /\ notified' = <<>>
            /\ UNCHANGED <<page, typing>>
       [] message.type = "STOP_RECORDING" ->
            /\ StopRecording
            /\ replies' = <<[success |-> TRUE]>>
            /\ notified' = <<>>
            /\ UNCHANGED <<page, typing>>
       [] message.type = "GET_STEPS" ->
            /\ replies' = <<[steps |-> recorder.steps]>>
            /\ notified' = <<>>
            /\ UNCHANGED <<page, typing, captureVars>>
       [] message.type = "RESOLVE_LOCATOR" ->
            /\ replies' = IF message.iterable
                            THEN <<[success |-> TRUE]>>
                            ELSE caught("locators is not iterable")
            /\ notified' = <<>>
            /\ UNCHANGED <<page, typing, captureVars>>
       [] message.type \in {"REPLAY_CLICK", "REPLAY_KEY_PRESS"} ->
            /\ \E found \in BOOLEAN : replies' = <<[success |-> found]>>
            /\ notified' = <<>>
            /\ UNCHANGED <<page, typing, captureVars>>
       [] message.type = "REPLAY_TYPE" ->
            /\ LET t == inputElement(page)
               IN IF t = 0
                    THEN /\ replies' = <<[success |-> FALSE]>>
                         /\ notified' = <<>>
                         /\ UNCHANGED <<page, typing>>
                    ELSE /\ page' = startTyping(page, t, message.text)
                         /\ IF message.text = <<>>
                              THEN /\ replies' = <<[success |-> TRUE]>>
                                   /\ notified' = <<>>
                                   /\ UNCHANGED typing
                              ELSE /\ replies' = <<>>
                                   /\ notified' = <<page'.elements[t].content>>
                                   /\ typing' = [pending |-> TRUE, target |-> t,
                                                 text |-> message.text, index |-> 1]
            /\ UNCHANGED captureVars
       [] OTHER ->
            /\ replies' = unknown(message)
            /\ notified' = <<>>
            /\ UNCHANGED <<page, typing, captureVars>>

\* the timer of line 812 fires: typeCharacterByCharacter with the next index;
\* lines 779-815, and 925-927 for the callback
TypeCharacterTimer ==
  /\ typing.pending
  /\ IF typing.index >= Len(typing.text)
       THEN /\ replies' = Append(replies, [success |-> TRUE])
            /\ typing' = NoTyping
            /\ UNCHANGED <<page, notified>>
       ELSE /\ page' = [page EXCEPT !.elements[typing.target].content =
                                       Append(@, typing.text[typing.index + 1])]
            /\ notified' = Append(notified, page'.elements[typing.target].content)
            /\ typing' = [typing EXCEPT !.index = @ + 1]
            /\ UNCHANGED replies
  /\ UNCHANGED <<request, deliveries, captureVars>>

\* the tab shows page p, with the content script in it
PageShows(p) ==
  /\ ~typing.pending
  /\ page # p
  /\ page' = p
  /\ UNCHANGED <<typing, request, replies, notified, deliveries, captureVars>>

(***************************************************************************)
(* Recorder: trace files (downloadTrace, handleFileSelect)                 *)
(***************************************************************************)
\* the text of a file, as the JSON value it writes down: a string, a number,
\* an array of values, or an object with its members in the order of the
\* text, each a pair of key and value
JString(s) == [kind |-> "string", s |-> s]
JNumber(n) == [kind |-> "number", n |-> n]
JArray(items) == [kind |-> "array", items |-> items]
JObject(members) == [kind |-> "object", members |-> members]

\* text that is no JSON
NotJson == [kind |-> "garbage"]

\* no file was selected in the last step
NoFile == [kind |-> "none"]

InitFile ==
  /\ thisSteps = <<>>
  /\ downloaded = NoFile
  /\ selected = NoFile

\* the own properties of a locator, in the order generateLocators (part_000,
\* lines 179-283) writes them
ownKeys(locator) ==
  CASE locator.type = "role" -> <<"type", "role", "name">>
    [] locator.type \in {"href", "xpath"} -> <<"type", "path">>
    [] locator.type = "text" -> <<"type", "content">>
    [] locator.type \in {"web-search", "composer-plus"} -> <<"type", "description">>
    [] locator.type = "css" -> <<"type", "selector">>
    [] OTHER -> <<"type", "value">>

\* JSON.stringify of a locator: its own properties, all strings
stringifyLocator(locator) ==
  JObject([i \in 1..Len(ownKeys(locator)) |->
             <<ownKeys(locator)[i], JString(locator[ownKeys(locator)[i]])>>])

\* the properties of a captured step after t and type, as members
payload(step) ==
  CASE step.type = "navigate" -> << <<"url", JString(step.url)>> >>
    [] step.type = "click" ->
         << <<"target",
              JObject(<< <<"locators",
                           JArray([i \in 1..Len(step.target.locators) |->
                                     stringifyLocator(step.target.locators[i])])>> >>)>> >>
    [] step.type = "type" -> << <<"text", JString(step.text)>> >>
    [] step.type = "press" -> << <<"key", JString(step.key)>> >>

\* a step written without its timestamp
stringifyStepUntimed(step) ==
  JObject(<< <<"type", JString(step.type)>> >> \o payload(step))

\* JSON.stringify of a step: t, then the properties of the captured step
\* (part_000, lines 64-67)
stringifyStep(step) ==
  JObject(<< <<"t", JNumber(step.t)>>, <<"type", JString(step.type)>> >> \o payload(step))

\* line 617: JSON.stringify(trace, null, 2) for trace = {version, steps}
stringifyTrace(version, steps) ==
  JObject(<< <<"version", JNumber(version)>>,
             <<"steps", JArray([i \in 1..Len(steps) |-> stringifyStep(steps[i])])>> >>)

\* text has a member of key k
HasMember(text, k) ==
  /\ text.kind = "object"
  /\ \E i \in 1..Len(text.members) : text.members[i][1] = k

\* JSON.parse of a text that is JSON: an object becomes the record of its
\* members (of members with one key, the last), an array the sequence of its
\* items
RECURSIVE JSONparse(_)
JSONparse(text) ==
  CASE text.kind = "string" -> text.s
    [] text.kind = "number" -> text.n
    [] text.kind = "array" -> [i \in 1..Len(text.items) |-> JSONparse(text.items[i])]
    [] text.kind = "object" ->
         [k \in {text.members[i][1] : i \in 1..Len(text.members)} |->
            LET last == CHOOSE i \in 1..Len(text.members) :
                          /\ text.members[i][1] = k
                          /\ \A j \in (i + 1)..Len(text.members) : text.members[j][1] # k
            IN JSONparse(text.members[last][2])]

\* lines 38-39: what reader.onload reads in the text of the file. JSON.parse
\* throws on text that is no JSON; trace.version and trace.steps are
\* undefined for a missing member
Document(text) ==
  IF text.kind # "object"
    THEN [parses |-> FALSE, version |-> 0, hasSteps |-> FALSE, steps |-> <<>>]
    ELSE [parses |-> TRUE,
          version |-> IF HasMember(text, "version") THEN JSONparse(text).version ELSE 0,
          hasSteps |-> HasMember(text, "steps"),
          steps |-> IF HasMember(text, "steps") THEN JSONparse(text).steps ELSE <<>>]

\* the steps of a recording: one of each type
Recording ==
  << StepNavigate("https://a.example/"),
     StepClick(generateLocators(GoButton)),
     StepType("a"),
     StepPress("Enter") >>

\* the steps the executor may send in its next RECORD_STEP message, with the
\* time of their capture: any step of the recording first, then the step that
\* follows the last one received (the recording is repeated cyclically)
RecordedSteps(received) ==
  { [t |-> Len(received) * TickMs] @@ Recording[i] :
      i \in { j \in 1..Len(Recording) :
                \/ received = <<>>
                \/ received[Len(received)].type = Recording[((j + 2) % Len(Recording)) + 1].type } }

\* the files of the file picker: text that is no JSON, and the documents
\* with no version, version 0 or version 1, and with no steps or the steps
\* of a recording of up to two navigations
VersionMembers ==
  {<<>>} \cup { << <<"version", JNumber(v)>> >> : v \in {0, 1} }

StepsMembers ==
  {<<>>} \cup { << <<"steps", JArray([i \in 1..n |->
                                        stringifyStep([t |-> (i - 1) * TickMs] @@ Recording[1])])>> >>
                  : n \in 0..2 }

FileTexts ==
  {NotJson} \cup { JObject(vm \o sm) : vm \in VersionMembers, sm \in StepsMembers }

\* handleMessage, case RECORD_STEP (lines 423-426), and addStep
HandleMessageRecordStep(step) ==
  /\ Len(thisSteps) < MaxTrace
  /\ thisSteps' = Append(thisSteps, step)
  /\ selected' = NoFile
  /\ UNCHANGED downloaded

\* the download button is clicked
DownloadTrace ==
  /\ downloaded' = stringifyTrace(1, thisSteps)
  /\ selected' = NoFile
  /\ UNCHANGED thisSteps

\* a file of text `text` is chosen in the file picker and read
FileSelected(text) ==
  /\ HandleFileSelect(Document(text))
  /\ selected' = text
  /\ UNCHANGED <<thisSteps, downloaded>>

(***************************************************************************)
(* The executor's recorder object: locator resolution                      *)
(***************************************************************************)
\* resolveLocator returns null
NullResult == [sel |-> "null"]

\* the elements of doc
elementsOf(doc) == {doc[i] : i \in 1..Len(doc)}

\* the first element of doc, in document order, that is one of found
First(doc, found) ==
  IF \E i \in 1..Len(doc) : doc[i] \in found
    THEN doc[CHOOSE i \in 1..Len(doc) :
               doc[i] \in found /\ \A j \in 1..(i - 1) : doc[j] \notin found]
    ELSE NullResult

\* the first result of rs that is not null
FirstOf(rs) ==
  IF \E i \in 1..Len(rs) : rs[i] # NullResult
    THEN rs[CHOOSE i \in 1..Len(rs) : rs[i] # NullResult /\ \A j \in 1..(i - 1) : rs[j] = NullResult]
    ELSE NullResult

\* element e matches the selector
matches(selector, e) ==
  CASE selector.sel = "attr" ->
         /\ selector.value # ""
         /\ IF selector.attr = "data-testid" THEN e.testid = selector.value
                                             ELSE e.title = selector.value
    [] selector.sel = "id" -> selector.value # "" /\ e.id = selector.value
    [] selector.sel = "href" -> e.tag = "A" /\ e.href = selector.value
    [] selector.sel = "role" ->
         /\ e.role = selector.role
         /\ IF selector.attr = "name" THEN e.name = selector.value
                                      ELSE e.aria = selector.value
    [] selector.sel = "tag" ->
         /\ e.tag = selector.tag
         /\ \A i \in 1..Len(selector.cls) : \E j \in 1..Len(e.cls) : e.cls[j] = selector.cls[i]
         /\ selector.href # "" => (e.href # "" /\ LastSegment(e.href) = selector.href)
         /\ selector.title # "" => e.title = selector.title
    [] OTHER -> FALSE

\* document.querySelector(selector) finds an element
querySelector(doc, selector) == \E i \in 1..Len(doc) : matches(selector, doc[i])

\* lines 513-521: document.evaluate(xpath, ...).singleNodeValue; the
\* exception of a path that is no XPath is caught on the spot
evaluate(doc, xpath) ==
  IF xpath.xpath = "malformed" THEN NullResult
  ELSE IF xpath.xpath = "attr"
    THEN First(doc, {e \in elementsOf(doc) : IF xpath.attr = "data-testid" THEN e.testid = xpath.value
                                                             ELSE e.id = xpath.value})
    ELSE First(doc, {e \in elementsOf(doc) : e.tag = xpath.tag /\ position(Node(e.tag, e.before, e.after)) = xpath.nth})

\* lines 534-560
findComposerPlusButton(doc) ==
  FirstOf(<< First(doc, {e \in elementsOf(doc) : e.testid = "composer-plus-btn"}),
             First(doc, {e \in elementsOf(doc) : e.tag = "BUTTON" /\ \E i \in 1..Len(e.cls) : e.cls[i] = "composer-btn"}),
             First(doc, {e \in elementsOf(doc) : e.tag = "BUTTON" /\ e.haspopup = "menu"}) >>)

\* lines 640-684, every element of the page being visible
findCurrentChatWebSearchToggle(doc) ==
  FirstOf(<< First(doc, {e \in elementsOf(doc) : e.tag = "BUTTON" /\ e.testid \in {"web-search-toggle", "search-toggle"}}),
             First(doc, {e \in elementsOf(doc) : e.tag = "BUTTON" /\ e.aria = "Web search"}),
             First(doc, {e \in elementsOf(doc) : e.tag = "BUTTON" /\ e.title = "Web search"}),
             First(doc, {e \in elementsOf(doc) : e.tag = "BUTTON" /\ e.aria = "Search the web"}),
             First(doc, {e \in elementsOf(doc) : e.tag = "BUTTON" /\ e.title = "Search the web"}),
             First(doc, {e \in elementsOf(doc) : e.tag = "BUTTON" /\ isWebSearchButton(e)}) >>)

\* lines 562-638: the toggle of the current chat, the buttons of the specific
\* selectors, the menu items and buttons with a web search text, and the
\* toggle buttons within an element of a search class (here the button
\* itself)
findWebSearchButton(doc) ==
  FirstOf(<< findCurrentChatWebSearchToggle(doc),
             First(doc, {e \in elementsOf(doc) : e.tag = "BUTTON" /\ e.testid \in WebSearchIds}),
             First(doc, {e \in elementsOf(doc) : e.tag = "BUTTON" /\ (e.aria \in WebSearchWords \/ e.title \in WebSearchWords)}),
             First(doc, {e \in elementsOf(doc) : e.role = "menuitemradio" /\ e.text \in {"Web search", "web search"}}),
             First(doc, {e \in elementsOf(doc) : e.tag = "BUTTON" /\ isWebSearchButton(e)}),
             First(doc, {e \in elementsOf(doc) : /\ e.tag = "BUTTON"
                                   /\ e.testid \in {"web-search-toggle", "search-toggle"}
                                   /\ \E i \in 1..Len(e.cls) : e.cls[i] = "search-bar"}) >>)

\* the pairs of a text and a longer text that includes it
Includes == {<<"Submit", "Submit now">>, <<"Go", "Go now">>}

\* a test by text.includes(content)
textIncludes(text, content) ==
  \/ text = content
  \/ <<content, text>> \in Includes

\* line 498: element.textContent && element.textContent.trim() === text
textEquals(text, content) == text # "" /\ text = content

\* lines 403-527: the body of the loop for one locator: the selector or the
\* element resolveLocator returns for it, or null when the loop goes on
resolveOne(doc, locator) ==
  CASE locator.type = "web-search" -> findWebSearchButton(doc)
    [] locator.type = "composer-plus" -> findComposerPlusButton(doc)
    [] locator.type = "data-testid" ->
         IF locator.value # "" /\ querySelector(doc, AttrSelector("data-testid", locator.value))
           THEN AttrSelector("data-testid", locator.value)
           ELSE NullResult
    [] locator.type = "role" ->
         IF locator.role = "" \/ locator.name = "" THEN NullResult
         ELSE IF querySelector(doc, RoleSelector(locator.role, "name", locator.name))
           THEN RoleSelector(locator.role, "name", locator.name)
         ELSE IF querySelector(doc, RoleSelector(locator.role, "aria-label", locator.name))
           THEN RoleSelector(locator.role, "aria-label", locator.name)
         ELSE First(doc, {e \in elementsOf(doc) : /\ e.role = locator.role
                                    /\ (e.text = locator.name \/ e.aria = locator.name)})
    [] locator.type = "id" ->
         IF locator.value # "" /\ querySelector(doc, IdSelector(locator.value))
           THEN IdSelector(locator.value)
           ELSE NullResult
    [] locator.type = "href" ->
         IF locator.path # "" /\ querySelector(doc, HrefSelector(locator.path))
           THEN HrefSelector(locator.path)
           ELSE NullResult
    [] locator.type = "title" ->
         IF locator.value # "" /\ querySelector(doc, AttrSelector("title", locator.value))
           THEN AttrSelector("title", locator.value)
           ELSE NullResult
    [] locator.type = "text" ->
         IF locator.content # ""
           THEN First(doc, {e \in elementsOf(doc) : textEquals(e.text, locator.content)})
           ELSE NullResult
    [] locator.type = "css" ->
         IF querySelector(doc, locator.selector) THEN locator.selector ELSE NullResult
    [] locator.type = "xpath" -> evaluate(doc, locator.path)
    [] OTHER -> NullResult

\* attribute values with a double quote: the selector built around one is
\* no CSS selector, and document.querySelector throws a SyntaxError for it
Malformed == {"a\"b"}

\* a null in the place of a locator: reading its type throws a TypeError
NullItem == [type |-> "null item"]

\* a css selector that is no CSS selector, an xpath that is no XPath
MalformedSelector == [sel |-> "malformed"]
MalformedXPath == [xpath |-> "malformed"]

\* the body of the loop throws for the locator
throws(locator) ==
  CASE locator.type \in {"data-testid", "id", "title"} -> locator.value \in Malformed
    [] locator.type = "role" ->
         /\ locator.role # ""
         /\ locator.name # ""
         /\ (locator.role \in Malformed \/ locator.name \in Malformed)
    [] locator.type = "href" -> locator.path \in Malformed
    [] locator.type = "css" -> locator.selector = MalformedSelector
    [] locator.type = NullItem.type -> TRUE
    [] OTHER -> FALSE

\* the exception leaves resolveLocator
propagates(res) == [res EXCEPT !.pc = "threw"]

\* lines 524-527: catch (e) { ...; continue; }
catch(res) == [res EXCEPT !.next = res.next + 1]

\* the loop goes on after every locator
returnsNever(result) == FALSE

\* lines 413, 422, 433, ..., 517: the loop returns the result of a locator
returns(result) == result # NullResult

\* no call of resolveLocator has been made
NoResolution == [locators |-> <<>>, next |-> 0, pc |-> "idle", result |-> NullResult]

InitLocate ==
  /\ dom = <<>>
  /\ resolution = NoResolution
  /\ tried = <<>>

\* the elements of the pages: a button with a test id; the same button with
\* a role and a label; a link with a dynamic id; a button with an id and a
\* title; a web search button
LinkNext ==
  [Element("A", "", "", "Next", "", "mui-1", "") EXCEPT !.href = "/next"]

Elements ==
  { GoButton,
    Element("BUTTON", "button", "Go", "Go", "go", "", ""),
    LinkNext,
    Element("BUTTON", "", "", "Go", "", "go-btn", "Go now"),
    Element("BUTTON", "", "Web search", "", "", "", "") }

\* the pages: up to MaxDoc of the elements, in any order
MaxDoc == 2
Documents == UNION {[1..n -> Elements] : n \in 0..MaxDoc}

\* the locator lists of the steps: the lists generated for the elements, a
\* list in another order, lists whose first locators have no value or an
\* unknown type, and lists with locators the evaluation of which throws
LocatorLists ==
  {generateLocators(e) : e \in Elements}
    \cup { << [type |-> "css", selector |-> IdSelector("go-btn")],
              [type |-> "text", content |-> "Go"],
              [type |-> "data-testid", value |-> "go"] >>,
           << [type |-> "data-testid", value |-> ""],
              [type |-> "label", value |-> "Go"],
              [type |-> "title", value |-> "Go now"] >>,
           << NullItem,
              [type |-> "data-testid", value |-> "a\"b"],
              [type |-> "css", selector |-> MalformedSelector],
              [type |-> "title", value |-> "Go now"] >>,
           << [type |-> "id", value |-> "a\"b"],
              [type |-> "role", role |-> "button", name |-> "a\"b"],
              [type |-> "xpath", path |-> MalformedXPath] >>,
           <<>> }

\* pages of buttons whose texts include one another, and the lists of one
\* text locator
SubmitButtons ==
  { Element("BUTTON", "", "", "Submit", "", "", ""),
    Element("BUTTON", "", "", "Submit now", "", "", ""),
    Element("DIV", "", "", "Go", "", "", "") }

SubmitDocuments == UNION {[1..n -> SubmitButtons] : n \in 0..MaxDoc}

TextLocatorLists ==
  { << [type |-> "text", content |-> c] >> : c \in {"Submit", "Submit now", "Go", ""} }

\* the page changes while no call of resolveLocator runs
PageChanges(doc) ==
  /\ resolution.pc # "loop"
  /\ doc # dom
  /\ dom' = doc
  /\ UNCHANGED <<resolution, tried>>

\* line 399: resolveLocator(locators) is called
ResolveLocators(locators) ==
  /\ resolution.pc # "loop"
  /\ resolution' = [locators |-> locators, next |-> 1, pc |-> "loop", result |-> NullResult]
  /\ tried' = <<>>
  /\ UNCHANGED dom

\* lines 402-531: one turn of the loop, or its end
TryLocator ==
  /\ resolution.pc = "loop"
  /\ IF resolution.next > Len(resolution.locators)
       THEN /\ resolution' = [resolution EXCEPT !.pc = "done"]
            /\ UNCHANGED tried
       ELSE LET locator == resolution.locators[resolution.next]
                result == resolveOne(dom, locator)
            IN /\ tried' = Append(tried, resolution.next)
               /\ IF throws(locator)
                    THEN resolution' = catch(resolution)
                    ELSE IF returns(result)
                      THEN resolution' = [resolution EXCEPT !.pc = "done", !.result = result]
                      ELSE resolution' = [resolution EXCEPT !.next = resolution.next + 1]
  /\ UNCHANGED dom

(***************************************************************************)
(* Recorder.startRecording, Recorder.stopRecording and the executor's      *)
(* pushes to the side panel                                                *)
(***************************************************************************)
MaxSessions == 2     \* calls of Recorder.startRecording in one behaviour

InitSession ==
  /\ thisIsRecording = FALSE
  /\ recordPc = "idle"
  /\ handlers = {}
  /\ binds = 0
  /\ sessions = 0
  /\ started = FALSE
  /\ pushed = <<>>

\* the messages of sendToSidePanel (part_000, lines 37-40, 54-57 and 75-78)
RecordingStarted == [type |-> "RECORDING_STARTED"]
RecordingStopped(steps) == [type |-> "RECORDING_STOPPED", steps |-> steps]
RecordStep(step) == [type |-> "RECORD_STEP", step |-> step]

\* addStep, lines 69-78: every step pushed to recorder.steps is sent as a
\* RECORD_STEP message; before and after are the recorder around a handler
\* that keeps the steps it found
recordSteps(before, after) ==
  [i \in 1..(Len(after.steps) - Len(before.steps)) |->
     RecordStep(after.steps[Len(before.steps) + i])]

\* Recorder.handleMessage (lines 411-428) and Recorder.addStep (430-436) on
\* this.steps
handleMessage(steps, message) ==
  CASE message.type = "RECORDING_STOPPED" -> message.steps
    [] message.type = "RECORD_STEP" -> Append(steps, message.step)
    [] OTHER -> steps

\* chrome.runtime.onMessage: the event calls each of its n listeners
RECURSIVE toListeners(_, _, _)
toListeners(steps, message, n) ==
  IF n = 0 THEN steps ELSE toListeners(handleMessage(steps, message), message, n - 1)

\* the messages, in the order sent, each to the n listeners
RECURSIVE dispatch(_, _, _)
dispatch(steps, messages, n) ==
  IF messages = <<>> THEN steps
  ELSE dispatch(toListeners(steps, Head(messages), n), Tail(messages), n)

\* sendToSidePanel, lines 81-86, for the messages a handler of the executor
\* sends: chrome.runtime.sendMessage hands each to the listeners that the
\* side panel holds at that time (the messages hold strings and numbers
\* only, and arrive as sent); with no listener the promise rejects and the
\* catch logs it
Sends(messages) ==
  /\ pushed' = messages
  /\ thisSteps' = dispatch(thisSteps, messages, Cardinality(handlers))

\* Recorder.startRecording, lines 316-331, for a window with an active tab:
\* up to the first await. The model has one call of
\* sendMessageToContentScript at a time, so the call starts when the last
\* one has returned
RecorderStartRecording ==
  /\ recordPc = "idle"
  /\ ~thisIsRecording
  /\ sendPc \in {"idle", "returned", "returnedNull"}
  /\ sessions < MaxSessions
  /\ sessions' = sessions + 1
  /\ thisIsRecording' = TRUE
  /\ thisSteps' = <<>>
  /\ recordPc' = "ensure"
  /\ started' = FALSE
  /\ pushed' = <<>>
  /\ UNCHANGED <<handlers, binds>>

\* line 337: await this.ensureContentScriptInjected() settles; when the
\* promise rejects, lines 346-350 catch it
RecorderEnsures(ok) ==
  /\ recordPc = "ensure"
  /\ IF ok /\ ~recorderActive
       THEN /\ recorderActive' = TRUE
            /\ listeners' = listeners + 1
       ELSE UNCHANGED <<recorderActive, listeners>>
  /\ recordPc' = IF ok THEN "send" ELSE "idle"
  /\ thisIsRecording' = ok
  /\ pushed' = <<>>
  /\ UNCHANGED <<sendPc, sendMsg, sendResult, injections, attempts, tries, waited, handled>>
  /\ UNCHANGED <<thisSteps, handlers, binds, sessions, started>>

\* line 340: this.sendMessageToContentScript({type: 'START_RECORDING'}) is
\* called
RecorderSendsStart ==
  /\ recordPc = "send"
  /\ SendMessageToContentScript("START_RECORDING")
  /\ recordPc' = "await"
  /\ pushed' = <<>>
  /\ UNCHANGED <<thisIsRecording, thisSteps, handlers, binds, sessions, started>>

\* lines 340-346: the call has returned, a response or null, and
\* this.handleMessage.bind(this), a new function, is added as a listener
RecorderListens ==
  /\ recordPc = "await"
  /\ sendPc \in {"returned", "returnedNull"}
  /\ handlers' = handlers \cup {binds + 1}
  /\ binds' = binds + 1
  /\ recordPc' = "idle"
  /\ pushed' = <<>>
  /\ UNCHANGED <<thisIsRecording, thisSteps, sessions, started>>

\* Recorder.stopRecording, lines 354-366: removeListener is given
\* this.handleMessage.bind(this), a new function again, and the request is
\* sent without awaiting it
RecorderStopRecording ==
  /\ recordPc = "idle"
  /\ thisIsRecording
  /\ thisIsRecording' = FALSE
  /\ handlers' = handlers \ {binds + 1}
  /\ binds' = binds + 1
  /\ SendMessageToContentScript("STOP_RECORDING")
  /\ pushed' = <<>>
  /\ UNCHANGED <<thisSteps, recordPc, sessions, started>>

\* chrome.tabs.sendMessage of the call settles; the executor's listener, when
\* the request reaches it, runs startRecording or stopRecording and answers
\* {success: true} (part_000, lines 897-907)
RequestSettles(delivered, answered) ==
  /\ TabsSendMessage(delivered, answered, TRUE)
  /\ IF delivered
       THEN IF sendMsg = "START_RECORDING"
              THEN /\ StartRecording
                   /\ Sends(<<RecordStep(recorder'.steps[1]), RecordingStarted>>)
                   /\ started' = TRUE
              ELSE /\ StopRecording
                   /\ Sends(<<RecordingStopped(recorder.steps)>>)
                   /\ UNCHANGED started
       ELSE /\ pushed' = <<>>
            /\ UNCHANGED <<captureVars, thisSteps, started>>
  /\ UNCHANGED <<thisIsRecording, recordPc, handlers, binds, sessions>>

\* a keydown event on the button of the page
KeyDown(key) ==
  /\ CaptureKeyPress(key, "button")
  /\ Sends(recordSteps(recorder, recorder'))
  /\ UNCHANGED <<thisIsRecording, recordPc, handlers, binds, sessions, started>>

(***************************************************************************)
(* Recorder.executeClick: the resolved locator on its way to REPLAY_CLICK  *)
(***************************************************************************)
\* the result of resolveLocator is a DOM element, not a selector string
isElement(result) == "tag" \in DOMAIN result

\* the result is a selector string
isString(result) == "sel" \in DOMAIN result /\ result # NullResult

\* what JSON makes of a DOM element: an object without properties
EmptyObject == [object |-> "{}"]

\* a value of a message as its receiver reads it: chrome.runtime.sendMessage
\* and chrome.tabs.sendMessage carry the JSON form of the message; strings
\* and null arrive as sent
serialized(value) == IF isElement(value) THEN EmptyObject ELSE value

\* no REPLAY_CLICK is on its way
NoClickReplay == [pc |-> "idle", selector |-> NullResult, success |-> FALSE,
                  target |-> NoElement]

InitRelay == clickReplay = NoClickReplay

\* part_000, lines 686-723: the element is the first match of a selector
\* string, or the value itself; a null ends at line 715; for an object that
\* is no element, element.getAttribute at line 696 throws and lines 719-722
\* return false; else the click is dispatched on the element
executeReplayClick(doc, selector) ==
  LET element == IF isString(selector)
                   THEN First(doc, {e \in elementsOf(doc) : matches(selector, e)})
                   ELSE selector
  IN IF isElement(element)
       THEN [success |-> TRUE, target |-> element]
       ELSE [success |-> FALSE, target |-> NoElement]

\* part_000, lines 909-919, and part_003, lines 238-245 and 192-193: the
\* listener sends what resolveLocator returned in LOCATOR_RESOLVED,
\* handleResponse resolves the promise with message.selector, and
\* executeClick goes on when it is truthy
LocatorResolved ==
  /\ resolution.pc = "done"
  /\ clickReplay.pc = "idle"
  /\ clickReplay' = [NoClickReplay EXCEPT
                       !.selector = serialized(resolution.result),
                       !.pc = IF serialized(resolution.result) # NullResult
                                THEN "resolved" ELSE "unresolved"]
  /\ UNCHANGED <<dom, resolution, tried>>

\* part_003, lines 196-199, and part_000, lines 920-923: REPLAY_CLICK carries
\* the selector to the executor, which answers with the result of
\* executeReplayClick
ReplayClick ==
  /\ clickReplay.pc = "resolved"
  /\ clickReplay' =
       [clickReplay EXCEPT
          !.pc = "clicked",
          !.success = executeReplayClick(dom, serialized(clickReplay.selector)).success,
          !.target = executeReplayClick(dom, serialized(clickReplay.selector)).target]
  /\ UNCHANGED <<dom, resolution, tried>>

(***************************************************************************)
(* Specifications                                                          *)
(***************************************************************************)
Init ==
  /\ InitReplay
  /\ InitSend
  /\ InitResolve
  /\ InitCapture
  /\ InitFile
  /\ InitLocate
  /\ InitListen
  /\ InitClick
  /\ InitSession
  /\ InitRelay

notReplay == <<sendVars, resolveVars, captureVars, fileVars, locateVars, listenVars, clickVars, sessionVars, clickReplay>>

NextReplay ==
  \/ /\ \E file \in Files : HandleFileSelect(file)
     /\ UNCHANGED notReplay
  \/ /\ StartReplay
     /\ UNCHANGED notReplay
  \/ /\ \E result \in {"tab", "none", "rejects"} : StartReplayTabs(result)
     /\ UNCHANGED notReplay
  \/ /\ StopReplay
     /\ UNCHANGED notReplay
  \/ /\ StepReplay
     /\ UNCHANGED notReplay
  \/ /\ \E call \in Calls, ok \in BOOLEAN : TabsUpdateSettles(call, ok)
     /\ UNCHANGED notReplay
  \/ /\ \E call \in Calls : NavigationSettled(call)
     /\ UNCHANGED notReplay
  \/ /\ \E call \in Calls, selector \in {Null, "[data-testid=\"go\"]"} : LocatorSettles(call, selector)
     /\ UNCHANGED notReplay
  \/ /\ \E call \in Calls, response \in Responses : ResponseSettles(call, response)
     /\ UNCHANGED notReplay

SpecReplay == Init /\ [][NextReplay]_vars

notSend == <<replayVars, resolveVars, captureVars, fileVars, locateVars, listenVars, clickVars, sessionVars, clickReplay>>

NextSend ==
  \/ /\ \E type \in MessageTypes : SendMessageToContentScript(type)
     /\ UNCHANGED notSend
  \/ /\ \E ok \in BOOLEAN : EnsureContentScriptInjected(ok)
     /\ UNCHANGED notSend
  \/ /\ RetryWaitElapsed
     /\ UNCHANGED notSend
  \/ /\ \E delivered \in BOOLEAN, answered \in BOOLEAN, success \in BOOLEAN :
           TabsSendMessage(delivered, answered, success)
     /\ UNCHANGED notSend
  \/ /\ PageUnloads
     /\ UNCHANGED notSend

SpecSend == Init /\ [][NextSend]_vars

notResolve == <<replayVars, sendVars, captureVars, fileVars, locateVars, listenVars, clickVars, sessionVars, clickReplay>>

NextResolve ==
  \/ /\ ResolveLocator
     /\ UNCHANGED notResolve
  \/ /\ Tick
     /\ UNCHANGED notResolve
  \/ /\ \E c \in 1..MaxResolves, delivered \in BOOLEAN, answered \in BOOLEAN,
           emits \in BOOLEAN, selector \in Selectors :
           DeliveryEnds(c, delivered, answered, emits, selector)
     /\ UNCHANGED notResolve
  \/ /\ \E message \in channel : OnMessage(message)
     /\ UNCHANGED notResolve
  \/ /\ \E c \in 1..MaxResolves : ResolveTimeout(c)
     /\ UNCHANGED notResolve

SpecResolve == Init /\ [][NextResolve]_vars

notCapture == <<replayVars, sendVars, resolveVars, fileVars, locateVars, listenVars, clickVars, sessionVars, clickReplay>>

NextCapture ==
  \/ /\ StartRecording
     /\ UNCHANGED notCapture
  \/ /\ StopRecording
     /\ UNCHANGED notCapture
  \/ /\ \E target \in Targets, text \in Texts : CaptureType(target, text)
     /\ UNCHANGED notCapture
  \/ /\ TypingTimeoutFires
     /\ UNCHANGED notCapture
  \/ /\ \E key \in Keys, target \in Targets : CaptureKeyPress(key, target)
     /\ UNCHANGED notCapture
  \/ /\ PageClearsField
     /\ UNCHANGED notCapture
  \/ /\ TimePasses
     /\ UNCHANGED notCapture

SpecCapture == Init /\ [][NextCapture]_vars

\* the capture engine with clicks and URL changes, for one text typed and
\* the Enter key
NextNavigate ==
  \/ /\ StartRecording
     /\ UNCHANGED notCapture
  \/ /\ StopRecording
     /\ UNCHANGED notCapture
  \/ /\ CaptureClick(GoButton)
     /\ UNCHANGED notCapture
  \/ /\ CaptureType("field", "a")
     /\ UNCHANGED notCapture
  \/ /\ TypingTimeoutFires
     /\ UNCHANGED notCapture
  \/ /\ CaptureKeyPress("Enter", "field")
     /\ UNCHANGED notCapture
  \/ /\ \E url \in Urls : UrlChanges(url)
     /\ UNCHANGED notCapture
  \/ /\ TimePasses
     /\ UNCHANGED notCapture

SpecNavigate == Init /\ [][NextNavigate]_vars

\* the navigation observer on the pages of the chat site
NextUrl ==
  \/ /\ StartRecording
     /\ UNCHANGED notCapture
  \/ /\ StopRecording
     /\ UNCHANGED notCapture
  \/ /\ CaptureKeyPress("Enter", "button")
     /\ UNCHANGED notCapture
  \/ /\ \E url \in ChatSiteUrls : UrlChanges(url)
     /\ UNCHANGED notCapture
  \/ /\ Mutation
     /\ UNCHANGED notCapture

SpecUrl == Init /\ [][NextUrl]_vars

\* recording with clicks on the elements of ClickTargets
notClick == <<replayVars, sendVars, resolveVars, fileVars, locateVars, listenVars, sessionVars, clickReplay>>

NextClick ==
  \/ /\ StartRecording
     /\ UNCHANGED notCapture
  \/ /\ StopRecording
     /\ UNCHANGED notCapture
  \/ /\ \E e \in ClickTargets : ClickEvent(e)
     /\ UNCHANGED notClick

SpecClick == Init /\ [][NextClick]_vars

\* the page of the tab: injections of content.js, the messages that start and
\* stop the recording, and the user's clicks and typing
notPage == <<replayVars, resolveVars, fileVars, locateVars, listenVars, clickVars, sessionVars, clickReplay>>
notInjected == <<sendPc, sendMsg, sendResult, recorderActive, listeners,
                 injections, attempts, tries, waited, handled>>

NextInject ==
  \/ /\ \E ok \in BOOLEAN : ExecuteScript(ok)
     /\ UNCHANGED notPage
  \/ /\ listeners > 0
     /\ StartRecording
     /\ UNCHANGED <<notPage, notInjected>>
  \/ /\ listeners > 0
     /\ StopRecording
     /\ UNCHANGED <<notPage, notInjected>>
  \/ /\ DispatchClick(GoButton)
     /\ UNCHANGED <<notPage, notInjected>>
  \/ /\ listeners > 0
     /\ CaptureType("field", "a")
     /\ UNCHANGED <<notPage, notInjected>>
  \/ /\ TypingTimeoutFires
     /\ UNCHANGED <<notPage, notInjected>>
  \/ /\ TimePasses
     /\ UNCHANGED <<notPage, notInjected>>

SpecInject == Init /\ [][NextInject]_vars

\* the listener of the executor, a message at a time
notListen == <<replayVars, sendVars, resolveVars, fileVars, locateVars, clickVars, sessionVars, clickReplay>>

NextListen ==
  \/ /\ \E message \in Messages : Listener(message)
     /\ UNCHANGED notListen
  \/ /\ TypeCharacterTimer
     /\ UNCHANGED notListen
  \/ /\ \E p \in TypePages : PageShows(p)
     /\ UNCHANGED notListen

SpecListen == Init /\ [][NextListen]_vars

\* a pending timer fires in the end
SpecType == SpecListen /\ WF_vars(TypeCharacterTimer /\ UNCHANGED notListen)

notReplayNorFile == <<sendVars, resolveVars, captureVars, locateVars, listenVars, clickVars, sessionVars, clickReplay>>

\* the files of the file picker, loaded before and during a replay of
\* navigations
NextFile ==
  \/ /\ \E text \in FileTexts : FileSelected(text)
     /\ UNCHANGED notReplayNorFile
  \/ /\ StartReplay
     /\ selected' = NoFile
     /\ UNCHANGED <<thisSteps, downloaded, notReplayNorFile>>
  \/ /\ \E result \in {"tab", "none"} : StartReplayTabs(result)
     /\ selected' = NoFile
     /\ UNCHANGED <<thisSteps, downloaded, notReplayNorFile>>
  \/ /\ StopReplay
     /\ selected' = NoFile
     /\ UNCHANGED <<thisSteps, downloaded, notReplayNorFile>>
  \/ /\ StepReplay
     /\ selected' = NoFile
     /\ UNCHANGED <<thisSteps, downloaded, notReplayNorFile>>
  \/ /\ \E call \in Calls : TabsUpdateSettles(call, TRUE)
     /\ selected' = NoFile
     /\ UNCHANGED <<thisSteps, downloaded, notReplayNorFile>>
  \/ /\ \E call \in Calls : NavigationSettled(call)
     /\ selected' = NoFile
     /\ UNCHANGED <<thisSteps, downloaded, notReplayNorFile>>

SpecFile == Init /\ [][NextFile]_vars

\* a recording is received, downloaded, and the downloaded file loaded
NextRoundTrip ==
  \/ /\ \E step \in RecordedSteps(thisSteps) : HandleMessageRecordStep(step)
     /\ UNCHANGED <<replayVars, notReplayNorFile>>
  \/ /\ DownloadTrace
     /\ UNCHANGED <<replayVars, notReplayNorFile>>
  \/ /\ \E text \in {NotJson, downloaded} \ {NoFile} : FileSelected(text)
     /\ UNCHANGED notReplayNorFile

SpecRoundTrip == Init /\ [][NextRoundTrip]_vars

\* a replay that runs to its end: the trace is loaded while the engine is
\* idle, a tab is found, the step and stop buttons are clicked when no call
\* is suspended, and every action succeeds
NextRun ==
  \/ /\ ~isReplaying
     /\ startPc = "idle"
     /\ \E file \in Files : HandleFileSelect(file)
     /\ UNCHANGED notReplay
  \/ /\ StartReplay
     /\ UNCHANGED notReplay
  \/ /\ StartReplayTabs("tab")
     /\ UNCHANGED notReplay
  \/ /\ advances = EmptyBag
     /\ StepReplay
     /\ UNCHANGED notReplay
  \/ /\ advances = EmptyBag
     /\ StopReplay
     /\ UNCHANGED notReplay
  \/ /\ \E call \in Calls : TabsUpdateSettles(call, TRUE)
     /\ UNCHANGED notReplay
  \/ /\ \E call \in Calls : NavigationSettled(call)
     /\ UNCHANGED notReplay
  \/ /\ \E call \in Calls : LocatorSettles(call, "[data-testid=\"go\"]")
     /\ UNCHANGED notReplay
  \/ /\ \E call \in Calls : ResponseSettles(call, "success")
     /\ UNCHANGED notReplay

SpecRun == Init /\ [][NextRun]_vars

notLocate == <<replayVars, sendVars, resolveVars, captureVars, fileVars, listenVars, clickVars, sessionVars, clickReplay>>

NextLocate ==
  \/ /\ \E doc \in Documents : PageChanges(doc)
     /\ UNCHANGED notLocate
  \/ /\ \E locators \in LocatorLists : ResolveLocators(locators)
     /\ UNCHANGED notLocate
  \/ /\ TryLocator
     /\ UNCHANGED notLocate

SpecLocate == Init /\ [][NextLocate]_vars

\* the resolver on text locators
NextText ==
  \/ /\ \E doc \in SubmitDocuments : PageChanges(doc)
     /\ UNCHANGED notLocate
  \/ /\ \E locators \in TextLocatorLists : ResolveLocators(locators)
     /\ UNCHANGED notLocate
  \/ /\ TryLocator
     /\ UNCHANGED notLocate

SpecText == Init /\ [][NextText]_vars

notSession == <<replayVars, resolveVars, downloaded, selected, locateVars, listenVars,
                clickVars, clickReplay>>

\* recording sessions of the side panel, with a key pressed in the page
NextSession ==
  \/ /\ RecorderStartRecording
     /\ UNCHANGED <<sendVars, captureVars, notSession>>
  \/ /\ \E ok \in BOOLEAN : RecorderEnsures(ok)
     /\ UNCHANGED <<captureVars, notSession>>
  \/ /\ RecorderSendsStart
     /\ UNCHANGED <<captureVars, notSession>>
  \/ /\ \E ok \in BOOLEAN : EnsureContentScriptInjected(ok)
     /\ pushed' = <<>>
     /\ UNCHANGED <<thisIsRecording, recordPc, handlers, binds, sessions, started,
                    thisSteps, captureVars, notSession>>
  \/ /\ RetryWaitElapsed
     /\ pushed' = <<>>
     /\ UNCHANGED <<thisIsRecording, recordPc, handlers, binds, sessions, started,
                    thisSteps, captureVars, notSession>>
  \/ /\ \E delivered \in BOOLEAN, answered \in BOOLEAN : RequestSettles(delivered, answered)
     /\ UNCHANGED notSession
  \/ /\ RecorderListens
     /\ UNCHANGED <<sendVars, captureVars, notSession>>
  \/ /\ RecorderStopRecording
     /\ UNCHANGED <<captureVars, notSession>>
  \/ /\ KeyDown("Tab")
     /\ UNCHANGED <<sendVars, notSession>>

SpecSession == Init /\ [][NextSession]_vars

notRelay == <<replayVars, sendVars, resolveVars, captureVars, fileVars, listenVars, clickVars,
              sessionVars>>

\* the clicks of a replay: each resolves its locators and sends REPLAY_CLICK;
\* the page stays as it is between the two
NextRelay ==
  \/ /\ clickReplay.pc # "resolved"
     /\ \E doc \in Documents : PageChanges(doc)
     /\ UNCHANGED <<clickReplay, notRelay>>
  \/ /\ clickReplay.pc # "resolved"
     /\ \E locators \in LocatorLists : ResolveLocators(locators)
     /\ clickReplay' = NoClickReplay
     /\ UNCHANGED notRelay
  \/ /\ TryLocator
     /\ UNCHANGED <<clickReplay, notRelay>>
  \/ /\ LocatorResolved
     /\ UNCHANGED notRelay
  \/ /\ ReplayClick
     /\ UNCHANGED notRelay

SpecRelay == Init /\ [][NextRelay]_vars

notPush == <<replayVars, sendVars, resolveVars, downloaded, selected, locateVars, listenVars,
             clickReplay, thisIsRecording, recordPc, handlers, binds, sessions, started>>

\* the capture handlers with their pushes to the side panel, which holds no
\* listener
NextPush ==
  \/ /\ StartRecording
     /\ Sends(<<RecordStep(recorder'.steps[1]), RecordingStarted>>)
     /\ UNCHANGED <<clickVars, notPush>>
  \/ /\ StopRecording
     /\ Sends(<<RecordingStopped(recorder.steps)>>)
     /\ UNCHANGED <<clickVars, notPush>>
  \/ /\ \E e \in {GoButton, SvgIcon} : CaptureClick(e)
     /\ Sends(recordSteps(recorder, recorder'))
     /\ UNCHANGED <<clickVars, notPush>>
  \/ /\ \E text \in Texts : CaptureType("field", text)
     /\ Sends(recordSteps(recorder, recorder'))
     /\ UNCHANGED <<clickVars, notPush>>
  \/ /\ \E key \in {"Enter", "Tab"}, target \in Targets : CaptureKeyPress(key, target)
     /\ Sends(recordSteps(recorder, recorder'))
     /\ UNCHANGED <<clickVars, notPush>>
  \/ /\ \E url \in Urls : UrlChanges(url)
     /\ Sends(recordSteps(recorder, recorder'))
     /\ UNCHANGED <<clickVars, notPush>>

SpecPush == Init /\ [][NextPush]_vars

(***************************************************************************)
(* Replay engine: properties                                               *)
(***************************************************************************)
\* C1: when the locators of a click step resolve to no match, stepReplay
\* aborts the replay: the engine is idle afterwards and the cursor has not
\* moved past the failed step (so no later step is executed).
C1_NoMatchAbortsReplay ==
  [][(outcome'.type = "click" /\ outcome'.result = "no match" /\ ~outcome'.stale)
       => (isReplaying' = FALSE /\ currentReplayStep' <= currentReplayStep)]_vars

\* C2: when the executor answers success = false to the REPLAY_TYPE of a
\* type step or to the REPLAY_KEY_PRESS of a press step, the replay is
\* aborted: the engine is idle afterwards and the cursor has not advanced.
C2_NoTargetAbortsReplay ==
  [][(outcome'.type \in {"type", "press"} /\ outcome'.result = "no target"
        /\ ~outcome'.stale)
       => (isReplaying' = FALSE /\ currentReplayStep' <= currentReplayStep)]_vars

\* C3: steps are replayed strictly sequentially: a step is handed to
\* executeAction only when no earlier stepReplay call is still suspended, and
\* the k-th step dispatched in a session is the step of index k-1 (each index
\* at most once, in order, none skipped).
C3_StrictlySequential ==
  [][dispatched' = dispatched + 1
       => (Calls = {} /\ currentReplayStep = dispatched)]_vars

\* C4: the completion of a stepReplay call that was suspended when stopReplay
\* ran changes neither the cursor index nor the replay state.
C4_StaleAdvanceHasNoEffect ==
  [][outcome'.stale
       => (currentReplayStep' = currentReplayStep /\ isReplaying' = isReplaying)]_vars

\* C5: replay is manual: a step is handed to executeAction only by a
\* stepReplay request, one request hands over at most one step, no step of
\* the engine moves the cursor forward by more than one, and the number of
\* steps dispatched never exceeds the number of requests made since
\* startReplay.
C5_ManualSingleStep ==
  /\ [](dispatched <= requests)
  /\ [][/\ dispatched' <= dispatched + 1
        /\ (dispatched' > dispatched => requests' = requests + 1)
        /\ currentReplayStep' <= currentReplayStep + 1]_vars

\* two requests have been made in a session and each has executed one step
C5_Witness ==
  /\ isReplaying
  /\ requests = 2
  /\ dispatched = 2
  /\ currentReplayStep = 2
  /\ Calls = {}

(***************************************************************************)
(* Messenger: properties                                                   *)
(***************************************************************************)
\* C6: one call of sendMessageToContentScript makes at most two delivery
\* attempts; the second is made only after the first try failed, the executor
\* was ensured again and the wait elapsed; a call that returned made one
\* successful try, or a failed and a successful one, or two failed ones, and
\* it returned null exactly in the last case; a first try that succeeded is
\* followed by no injection and no send.
C6_AtMostOneRetry ==
  /\ attempts <= 2
  /\ injections <= 2
  /\ sendPc \in {"idle", "inject1", "send1", "inject2", "wait", "send2",
                  "returned", "returnedNull"}
  /\ attempts = 2 => (waited /\ injections = 2 /\ tries[1] = "failed")
  /\ sendPc \in {"returned", "returnedNull"} =>
       /\ tries \in {<<"ok">>, <<"failed", "ok">>, <<"failed", "failed">>}
       /\ sendResult = Null <=> tries = <<"failed", "failed">>
       /\ sendResult # "pending"
       /\ tries = <<"ok">> => (attempts = 1 /\ injections = 1)

\* both delivery attempts were made and failed, and the call returned null
C6_Witness ==
  /\ sendPc = "returnedNull"
  /\ attempts = 2
  /\ tries = <<"failed", "failed">>
  /\ sendResult = Null

(***************************************************************************)
(* resolveLocator: properties                                              *)
(***************************************************************************)
\* C7: a call of resolveLocator settles once: a pending call always has its
\* timer armed and its listener registered (so the timer settles it if no
\* message does, whatever the state of the delivery and its retry); a settled
\* call never changes its value; and the value is the selector of the first
\* LOCATOR_RESOLVED message with the call's messageId if that message arrived
\* before the timer fired, and null otherwise. Messages with other ids and
\* messages after the timeout do not count.
C7_SettlesOnce ==
  /\ [](\A c \in 1..MaxResolves :
          /\ resolves[c].state = "pending" =>
                (resolves[c].timer /\ resolves[c].listening /\ ~resolves[c].first.seen)
          /\ resolves[c].state = "settled" =>
                /\ ~resolves[c].listening
                /\ resolves[c].value =
                     IF resolves[c].first.seen /\ resolves[c].first.timely
                       THEN resolves[c].first.selector ELSE Null
                /\ ~resolves[c].first.seen => ~resolves[c].timer)
  /\ [][\A c \in 1..MaxResolves :
          resolves[c].state = "settled" =>
            (resolves'[c].state = "settled" /\ resolves'[c].value = resolves[c].value)]_vars

\* one call timed out before the message with its id arrived; another call,
\* with a different id, was settled by its own message while its request was
\* being retried
C7_Witness ==
  \E c, d \in 1..MaxResolves :
    /\ resolves[c].state = "settled" /\ resolves[c].first.seen /\ ~resolves[c].first.timely
    /\ resolves[d].state = "settled" /\ resolves[d].value = Selector
    /\ resolves[d].messageId # resolves[c].messageId
    /\ resolves[d].delivery = "retrying"

(***************************************************************************)
(* Step capture: properties                                                *)
(***************************************************************************)
\* C8: no input event of a burst appends a step, and when the debounce timer
\* fires it fires no earlier than 1000 ms after the last input event and
\* appends exactly one type step, holding the text of the last input event.
C8_BurstEmitsOneTypeStep ==
  /\ [][event' = "input" => recorder'.steps = recorder.steps]_vars
  /\ [][event' = "timer" =>
          /\ now >= burst.at + DebounceMs
          /\ recorder'.steps =
               Append(recorder.steps, Stamped(recorder, StepType(burst.text)))]_vars

\* C8, amended: no input event of a burst appends a step, and when the
\* debounce timer fires it fires no earlier than 1000 ms after the last input
\* event and appends one type step with the text of the last input event if
\* that text is non-empty and differs from recorder.lastTypedText, and
\* nothing otherwise.
C8_BurstEmitsAtMostOneTypeStep ==
  /\ [][event' = "input" => recorder'.steps = recorder.steps]_vars
  /\ [][event' = "timer" =>
          /\ now >= burst.at + DebounceMs
          /\ recorder'.steps =
               IF burst.text # "" /\ burst.text # recorder.lastTypedText
                 THEN Append(recorder.steps, Stamped(recorder, StepType(burst.text)))
                 ELSE recorder.steps]_vars

\* the timer fired after a burst of two or more input events less than
\* 1000 ms apart and appended the type step with the last text
C8_Witness ==
  /\ event = "timer"
  /\ burst.count >= 2
  /\ burst.tight
  /\ burst.text = "ab"
  /\ recorder.steps # <<>>
  /\ recorder.steps[Len(recorder.steps)] = Stamped(recorder, StepType(burst.text))

\* C9: Enter pressed in the field while the debounce timer is pending appends
\* a type step with the field's current text and then a press step with key
\* Enter, and cancels the timer; a pending timer is always the one that
\* typingTimeout names.
C9_EnterFlushesTypeThenPress ==
  /\ [](timer.armed => recorder.typingTimeout)
  /\ [][event' = "enter" =>
          /\ ~timer'.armed
          /\ recorder'.steps =
               recorder.steps \o << Stamped(recorder, StepType(field)),
                                    Stamped(recorder, StepPress("Enter")) >>]_vars

\* C9, amended: Enter pressed in the field while the debounce timer is
\* pending cancels the timer and appends a press step with key Enter,
\* preceded by a type step with the field's current text if that text is
\* non-empty and differs from recorder.lastTypedText; a pending timer is
\* always the one that typingTimeout names.
C9_EnterFlushesFreshText ==
  /\ [](timer.armed => recorder.typingTimeout)
  /\ [][event' = "enter" =>
          /\ ~timer'.armed
          /\ recorder'.steps =
               recorder.steps \o
                 (IF field # "" /\ field # recorder.lastTypedText
                    THEN <<Stamped(recorder, StepType(field))>> ELSE <<>>) \o
                 <<Stamped(recorder, StepPress("Enter"))>>]_vars

\* Enter in the field flushed the text typed less than 1000 ms before: the
\* trace ends with the type step and the press step, and no timer is pending
C9_Witness ==
  /\ event = "enter"
  /\ ~timer.armed
  /\ field = "ab"
  /\ Len(recorder.steps) >= 2
  /\ recorder.steps[Len(recorder.steps) - 1] = Stamped(recorder, StepType("ab"))
  /\ recorder.steps[Len(recorder.steps)] = Stamped(recorder, StepPress("Enter"))

\* C10: startRecording leaves the recorder recording, started now, with the
\* one navigate step for the current URL, no pending debounce timer, no timer
\* handle, an empty last-emitted text, the current URL as last URL and
\* navigate as the last step type.
C10_StartResetsCaptureState ==
  [][event' = "start" =>
       /\ recorder'.isRecording
       /\ recorder'.startTime = now
       /\ recorder'.steps = <<[t |-> 0] @@ StepNavigate(href)>>
       /\ recorder'.lastUrl = href
       /\ recorder'.lastRecordedEvent = "navigate"
       /\ ~timer'.armed
       /\ ~recorder'.typingTimeout
       /\ recorder'.lastTypedText = ""]_vars

(***************************************************************************)
(* Trace shape: properties                                                 *)
(***************************************************************************)
\* C11: a non-empty step list starts with a navigate step; startRecording
\* makes that step hold the URL the page has at that moment, and no later
\* event replaces or removes it (nor adds a step to an empty list).
C11_FirstStepIsStartNavigate ==
  /\ [](recorder.steps # <<>> => recorder.steps[1].type = "navigate")
  /\ [][event' = "start" =>
          /\ recorder'.steps # <<>>
          /\ recorder'.steps[1].type = "navigate"
          /\ recorder'.steps[1].url = href]_vars
  /\ [][event' # "start" =>
          IF recorder.steps = <<>>
            THEN recorder'.steps = <<>>
            ELSE recorder'.steps # <<>> /\ recorder'.steps[1] = recorder.steps[1]]_vars

\* the page has left the URL it had when the recording started, steps were
\* added, and the first step still holds the starting URL
C11_Witness ==
  /\ recorder.isRecording
  /\ Len(recorder.steps) >= 3
  /\ recorder.steps[1] = [t |-> 0] @@ StepNavigate(StartUrl)
  /\ recorder.steps[2].type = "navigate"
  /\ href = ChatUrl

C13_StopFreezesTrace ==
  /\ [](~recorder.isRecording => ~timer.armed)
  /\ [][(recorder.isRecording /\ ~recorder'.isRecording) =>
          recorder'.steps = recorder.steps]_vars
  /\ [][(~recorder.isRecording /\ event' # "start") =>
          (recorder'.steps = recorder.steps /\ ~recorder'.isRecording)]_vars

\* the recording was stopped with typed text not yet flushed, the page then
\* changed its URL, and the trace holds no type step
C13_Witness ==
  /\ ~recorder.isRecording
  /\ recorder.steps # <<>>
  /\ field = "a"
  /\ recorder.lastTypedText = ""
  /\ \A i \in 1..Len(recorder.steps) : recorder.steps[i].type # "type"
  /\ event = "url"
  /\ now >= DebounceMs

\* C14: while recording, a URL change observed when the last recorded step
\* is a press step appends no step, whatever the host of the new URL.
C14_NoNavigateAfterPress ==
  [][(/\ event' = "url"
      /\ recorder.isRecording
      /\ recorder.steps # <<>>
      /\ recorder.steps[Len(recorder.steps)].type = "press")
       => recorder'.steps = recorder.steps]_vars

(***************************************************************************)
(* Trace files: properties                                                 *)
(***************************************************************************)
\* the load of the last step left the replay steps, the cursor and the
\* replay state as they were
LoadRejected ==
  /\ replaySteps' = replaySteps
  /\ currentReplayStep' = currentReplayStep
  /\ isReplaying' = isReplaying
  /\ isPaused' = isPaused

\* C15, as stated: a file that is no JSON, or a document without a version
\* or without steps, is rejected and leaves the replay steps, the cursor and
\* the replay state unchanged; a document with a version and with steps sets
\* the replay steps to exactly the steps of the document.
C15_LoadAllOrNothing ==
  [][selected' # NoFile =>
       IF HasMember(selected', "version") /\ HasMember(selected', "steps")
         THEN replaySteps' = JSONparse(selected').steps
         ELSE LoadRejected]_vars

\* C15, amended: the version has to be truthy. A file that is no JSON, or a
\* document without steps or whose version is missing or 0, is rejected and
\* leaves the replay steps, the cursor and the replay state unchanged; a
\* document with a version other than 0 and with steps sets the replay steps
\* to exactly the steps of the document and leaves the cursor and the replay
\* state unchanged.
C15_LoadTruthyVersionAllOrNothing ==
  [][selected' # NoFile =>
       IF /\ HasMember(selected', "version")
          /\ JSONparse(selected').version # 0
          /\ HasMember(selected', "steps")
         THEN /\ replaySteps' = JSONparse(selected').steps
              /\ currentReplayStep' = currentReplayStep
              /\ isReplaying' = isReplaying
         ELSE LoadRejected]_vars

\* a document with version 0 and with steps was selected in the middle of a
\* replay of another trace, after one advance
C15_Witness ==
  /\ HasMember(selected, "version")
  /\ JSONparse(selected).version = 0
  /\ HasMember(selected, "steps")
  /\ Len(JSONparse(selected).steps) = 1
  /\ isReplaying
  /\ currentReplayStep = 1
  /\ Len(replaySteps) = 2

\* C16: round trip. When the file loaded is the file downloadTrace wrote, the
\* load is accepted and the replay steps are the steps this.steps held at the
\* download (this.steps has only grown since), identical in order, types,
\* timestamps and payload fields.
C16_RoundTrip ==
  (selected # NoFile /\ selected = downloaded) =>
    /\ ~playBtnDisabled
    /\ Len(replaySteps) <= Len(thisSteps)
    /\ replaySteps = SubSeq(thisSteps, 1, Len(replaySteps))
    /\ downloaded = stringifyTrace(1, replaySteps)

\* a recording of a click with its locators, a type and a press step was
\* downloaded and loaded
C16_Witness ==
  /\ selected # NoFile
  /\ selected = downloaded
  /\ Len(replaySteps) = 3
  /\ replaySteps = thisSteps
  /\ replaySteps[1].type = "click"
  /\ replaySteps[1].target.locators = generateLocators(GoButton)
  /\ replaySteps[2] = [t |-> TickMs, type |-> "type", text |-> "a"]
  /\ replaySteps[3].key = "Enter"
  /\ replaySteps[3].t = 2 * TickMs

(***************************************************************************)
(* Replay engine: start and completion                                     *)
(***************************************************************************)
\* C17: startReplay enters the stepping state only when an active tab
\* exists. When chrome.tabs.query has settled, either the engine is in the
\* stepping state (replaying, its controls shown) with the cursor at 0 and
\* activeTabId the tab found, or it is not left in the replaying state.
C17_StartsOnlyWithActiveTab ==
  [][(startPc = "query" /\ startPc' = "idle") =>
       IF isReplaying'
         THEN /\ replayControlsShown'
              /\ currentReplayStep' = 0
              /\ activeTabId' = TabId
         ELSE /\ ~replayControlsShown'
              /\ currentReplayStep' = 0]_vars

\* C18: a trace of N steps, every action succeeding, one stepReplay request
\* at a time. The k-th request is made in the stepping state with the cursor
\* at k - 1 and hands step k - 1 to executeAction; while the replay runs the
\* cursor is the number of completed advances; when the action of the k-th
\* request has returned, the engine is still stepping with the cursor at k if
\* k < N, and for k = N it is idle (isReplaying false, cursor 0) after exactly
\* N requests and N executed steps.
C18_RunsToCompletion ==
  /\ [][requests' = requests + 1 =>
          /\ isReplaying
          /\ currentReplayStep = requests
          /\ dispatched = requests
          /\ dispatched' = requests'
          /\ \/ outcome'.type = replaySteps[requests'].type
             \/ \E call \in BagToSet(advances') : call.type = replaySteps[requests'].type]_vars
  /\ []((isReplaying /\ startPc = "idle") =>
          /\ currentReplayStep = requests - BagCardinality(advances)
          /\ currentReplayStep < Len(replaySteps))
  /\ [][outcome' # NoOutcome =>
          /\ outcome'.result = "ok"
          /\ IF requests' < Len(replaySteps)
               THEN /\ isReplaying'
                    /\ currentReplayStep' = requests'
               ELSE /\ ~isReplaying'
                    /\ currentReplayStep' = 0
                    /\ requests' = Len(replaySteps)
                    /\ dispatched' = Len(replaySteps)]_vars

\* the third request of a replay of three steps has completed: the engine
\* is idle
C18_Witness ==
  /\ outcome # NoOutcome
  /\ Len(replaySteps) = 3
  /\ requests = 3
  /\ dispatched = 3
  /\ ~isReplaying
  /\ currentReplayStep = 0
  /\ advances = EmptyBag

(***************************************************************************)
(* Locator resolution: properties                                          *)
(***************************************************************************)
\* C19: the resolver tries the locators strictly in list order and stops at
\* the first success. The locators evaluated are always the first ones of
\* the list, in order; when the call returns, its result is the result of the
\* first locator of the list that resolves in the document and no locator
\* after that one was evaluated, and it is null, every locator evaluated,
\* when no locator resolves.
C19_FirstSuccessInListOrder ==
  /\ [](tried = [i \in 1..Len(tried) |-> i])
  /\ [][(resolution.pc = "loop" /\ resolution'.pc = "done") =>
          LET list == resolution'.locators
              resolving == {i \in 1..Len(list) : resolveOne(dom', list[i]) # NullResult}
          IN IF resolving = {}
               THEN /\ resolution'.result = NullResult
                    /\ Len(tried') = Len(list)
               ELSE LET first == CHOOSE i \in resolving : \A j \in resolving : i <= j
                    IN /\ resolution'.result = resolveOne(dom', list[first])
                       /\ Len(tried') = first]_vars

\* a call returned the result of its second locator, the first one having
\* failed, and the third locator resolves in the document too
C19_Witness ==
  /\ resolution.pc = "done"
  /\ Len(resolution.locators) >= 3
  /\ tried = <<1, 2>>
  /\ resolution.result # NullResult
  /\ resolution.result = resolveOne(dom, resolution.locators[2])
  /\ resolveOne(dom, resolution.locators[1]) = NullResult
  /\ resolveOne(dom, resolution.locators[3]) # NullResult
  /\ resolveOne(dom, resolution.locators[3]) # resolution.result

C21_TestIdMatchesExactlyOne ==
  [][(/\ resolution.pc = "loop"
      /\ tried' = Append(tried, resolution.next)
      /\ resolution.locators[resolution.next].type = "data-testid"
      /\ Cardinality({i \in 1..Len(dom) :
                        dom[i].testid = resolution.locators[resolution.next].value}) # 1)
       => /\ resolution'.pc = "loop"
          /\ resolution'.next = resolution.next + 1
          /\ resolution'.result = NullResult]_vars

\* C22: resolveLocator never aborts on one bad locator. No exception leaves
\* the call; a locator whose evaluation throws counts as failed and the loop
\* goes on with the next one; when the call returns and no locator of the
\* list resolves, the result is null; a result that is not null is an
\* element of the document or a selector that an element of the document
\* matches.
C22_BadLocatorNeverAborts ==
  /\ [](resolution.pc # "threw")
  /\ [][(/\ resolution.pc = "loop"
         /\ tried' = Append(tried, resolution.next)
         /\ throws(resolution.locators[resolution.next]))
          => /\ resolution'.pc = "loop"
             /\ resolution'.next = resolution.next + 1
             /\ resolution'.result = NullResult]_vars
  /\ [][(resolution.pc = "loop" /\ resolution'.pc = "done") =>
          LET list == resolution.locators
              result == resolution'.result
          IN /\ (\A i \in 1..Len(list) :
                   throws(list[i]) \/ resolveOne(dom, list[i]) = NullResult)
                  => (result = NullResult /\ Len(tried') = Len(list))
             /\ result # NullResult
                  => (result \in elementsOf(dom) \/ querySelector(dom, result))]_vars

\* a call returned the selector of its fourth locator after the evaluation
\* of the first three had thrown
C22_Witness ==
  /\ resolution.pc = "done"
  /\ tried = <<1, 2, 3, 4>>
  /\ \A i \in 1..3 : throws(resolution.locators[i])
  /\ resolution.result = AttrSelector("title", "Go now")
  /\ querySelector(dom, resolution.result)

\* C23: a text locator resolves only to an element whose trimmed text equals
\* the stored content. When the loop evaluates a text locator with a content,
\* it fails if no element of the document has that text, also when the text
\* of an element includes the content ("Submit now" for "Submit"); otherwise
\* it returns an element of the document with exactly that text, the unique
\* one when there is one.
C23_TextMatchesExactly ==
  [][(/\ resolution.pc = "loop"
      /\ tried' = Append(tried, resolution.next)
      /\ resolution.locators[resolution.next].type = "text"
      /\ resolution.locators[resolution.next].content # "")
       => LET content == resolution.locators[resolution.next].content
              equal == {i \in 1..Len(dom) : dom[i].text = content}
          IN IF equal = {}
               THEN /\ resolution'.pc = "loop"
                    /\ resolution'.result = NullResult
               ELSE /\ resolution'.pc = "done"
                    /\ resolution'.result \in elementsOf(dom)
                    /\ resolution'.result.text = content
                    /\ \A i \in equal : Cardinality(equal) = 1 => resolution'.result = dom[i]]_vars

\* the locator of content "Submit" resolved to the button of that text in a
\* document where the button "Submit now" comes first
C23_Witness ==
  /\ resolution.pc = "done"
  /\ resolution.locators = << [type |-> "text", content |-> "Submit"] >>
  /\ Len(dom) = 2
  /\ dom[1].text = "Submit now"
  /\ dom[2].text = "Submit"
  /\ resolution.result = dom[2]

\* C24: no click step carries an id locator, or a css selector built from
\* the id, for an id the dynamic patterns are meant to cover: the id
\* a1b2c3d4e5f6g7h8, an alphanumeric token of 20 or more characters, or an id
\* with the prefix react-select, mui-, chakra- or rc-. It fails: the id
\* a1b2c3d4e5f6g7h8 has 16 characters, two of them outside a-f, and matches
\* no pattern of isDynamicId.
C24_DynamicIdNeverUsed ==
  LET named(id) ==
        \/ id = "a1b2c3d4e5f6g7h8"
        \/ Len(chars(id)) >= 20 /\ \A i \in 1..Len(chars(id)) : chars(id)[i] \in Alphanumerics
        \/ id \in {"react-select-2", "mui-1", "chakra-1", "rc-1"}
  IN \A i \in 1..Len(recorder.steps) :
       recorder.steps[i].type = "click" =>
         \A j \in 1..Len(recorder.steps[i].target.locators) :
           LET l == recorder.steps[i].target.locators[j]
           IN /\ l.type = "id" => ~named(l.value)
              /\ (l.type = "css" /\ l.selector.sel = "id") => ~named(l.selector.value)

(***************************************************************************)
(* Injection: properties                                                   *)
(***************************************************************************)
\* C25: re-injection of the executor is idempotent. Within one page load the
\* page that ran the script holds exactly one set of listeners, an injection
\* into a page that already ran it leaves the recorder (isRecording, steps,
\* last text), its timer and its listeners unchanged, and a click made while
\* recording appends exactly one step, a click step, however many injections
\* came before it.
C25_ReinjectionIdempotent ==
  /\ [](recorderActive => listeners = 1)
  /\ [](~recorderActive => listeners = 0)
  /\ [][(injections' = injections + 1 /\ recorderActive) =>
          /\ recorder' = recorder
          /\ timer' = timer
          /\ listeners' = listeners
          /\ recorderActive']_vars
  /\ [][(event' = "click" /\ recorder.isRecording) =>
          /\ Len(recorder'.steps) = Len(recorder.steps) + 1
          /\ recorder'.steps[Len(recorder'.steps)].type = "click"
          /\ SubSeq(recorder'.steps, 1, Len(recorder.steps)) = recorder.steps]_vars

\* three injections, the recording started after the first, and a click
\* after the last gave the one click step of the trace
C25_Witness ==
  /\ injections = 3
  /\ event = "click"
  /\ recorder.isRecording
  /\ Len(recorder.steps) = 2
  /\ recorder.steps[2].type = "click"

(***************************************************************************)
(* Message listener: properties                                            *)
(***************************************************************************)
\* C26: every message the executor receives gets exactly one response: never
\* more than one, and one as soon as the handler is through (for REPLAY_TYPE,
\* when the typing has ended). A message of an unknown type gets the response
\* success = false with an error and leaves the recorder and its timer
\* unchanged; a handler that throws (RESOLVE_LOCATOR without a list of
\* locators) gets a response success = false as well.
C26_EveryRequestAnsweredOnce ==
  /\ [](Len(replies) <= 1)
  /\ []((deliveries > 0 /\ ~typing.pending) => Len(replies) = 1)
  /\ []((deliveries > 0 /\ request.type \notin Known) =>
          replies = <<[success |-> FALSE, error |-> "Unknown message type"]>>)
  /\ [][(deliveries' = deliveries + 1 /\ request'.type \notin Known) =>
          (recorder' = recorder /\ timer' = timer)]_vars
  /\ []((deliveries > 0 /\ request.type = "RESOLVE_LOCATOR" /\ ~request.iterable) =>
          (Len(replies) = 1 /\ replies[1].success = FALSE))

\* a message of an unknown type arrived during a recording and was answered
\* with the failure response
C26_Witness ==
  /\ deliveries > 1
  /\ request.type = "PING"
  /\ recorder.isRecording
  /\ replies = <<[success |-> FALSE, error |-> "Unknown message type"]>>

(***************************************************************************)
(* Typing replay: properties                                               *)
(***************************************************************************)
\* C29: a REPLAY_TYPE request with a text of n characters on a page with an
\* editable target terminates. The previous content of the target is
\* cleared; while the typing is pending no response has been sent, the
\* content is the characters typed so far and one input notification followed
\* each of them; the timers fire until the typing has ended; and it ends with
\* the one response success = true, sent when the content equals the text
\* and n notifications were made. With no editable target the response is
\* success = false and nothing is typed.
C29_TypingTerminates ==
  /\ [](typing.pending =>
          /\ replies = <<>>
          /\ typing.index \in 1..Len(typing.text)
          /\ page.elements[typing.target].content = SubSeq(typing.text, 1, typing.index)
          /\ notified = [k \in 1..typing.index |-> SubSeq(typing.text, 1, k)])
  /\ typing.pending ~> ~typing.pending
  /\ [][(typing.pending /\ ~typing'.pending) =>
          /\ replies' = <<[success |-> TRUE]>>
          /\ page'.elements[typing.target].content = request.text
          /\ Len(notified') = Len(request.text)]_vars
  /\ [][(deliveries' = deliveries + 1 /\ request'.type = "REPLAY_TYPE"
           /\ inputElement(page) # 0) =>
          /\ request'.text # <<>> => (typing'.pending /\ typing'.text = request'.text)
          /\ request'.text = <<>> =>
               /\ replies' = <<[success |-> TRUE]>>
               /\ page'.elements[inputElement(page)].content = <<>>
               /\ notified' = <<>>]_vars
  /\ [][(deliveries' = deliveries + 1 /\ request'.type = "REPLAY_TYPE"
           /\ inputElement(page) = 0) =>
          /\ replies' = <<[success |-> FALSE]>>
          /\ page' = page
          /\ notified' = <<>>
          /\ ~typing'.pending]_vars

\* the text of two characters was typed over the old content of the second
\* text field of the page, and the response sent
C29_Witness ==
  /\ request.type = "REPLAY_TYPE"
  /\ Len(request.text) = 2
  /\ replies = <<[success |-> TRUE]>>
  /\ ~typing.pending
  /\ Len(page.elements) = 3
  /\ page.elements[3].content = request.text
  /\ Len(notified) = 2

(***************************************************************************)
(* Click capture and locator generation: properties                        *)
(***************************************************************************)
\* C27: while recording, every click event appends exactly one step, at
\* once: a click step whose locator list is the one generated for
\* event.target, whatever element the target is. It fails for the elements
\* of an SVG image and for links whose href is no URL: generateLocators
\* throws and captureClick ends before addStep.
C27_ClickAppendsOneStep ==
  [][(clicks' = clicks + 1 /\ recorder.isRecording) =>
       /\ Len(recorder'.steps) = Len(recorder.steps) + 1
       /\ SubSeq(recorder'.steps, 1, Len(recorder.steps)) = recorder.steps
       /\ recorder'.steps[Len(recorder'.steps)].type = "click"
       /\ recorder'.steps[Len(recorder'.steps)].target.locators = generated'.locators
       /\ ~generated'.threw]_vars

\* C28: locator generation never aborts for the whole element: every call of
\* generateLocators returns a list, and the list holds the locators that
\* apply to the element whatever error another locator ran into: its test
\* id, its title, its text and its xpath. It fails: an error of new URL(href)
\* or of isComposerPlusButton is not caught and ends the call.
C28_GenerationNeverAborts ==
  LET holds(l) == \E j \in 1..Len(generated.locators) : generated.locators[j] = l
  IN /\ ~generated.threw
     /\ generated # NotCalled =>
          /\ clicked.testid # "" => holds([type |-> "data-testid", value |-> clicked.testid])
          /\ clicked.title # "" => holds([type |-> "title", value |-> clicked.title])
          /\ clicked.text # "" => holds([type |-> "text", content |-> clicked.text])
          /\ holds([type |-> "xpath", path |-> generateSimpleXPath(clicked)])

\* C30: for a clicked element without test id and without a stable id the
\* xpath is a path of at most 5 steps, the element and its nearest ancestors,
\* and a step carries a [position] predicate only where the node has a
\* sibling element of the same tag. It fails for a node whose only siblings
\* have other tags.
C30_PositionOnlyAmongSameTag ==
  LET nodes == nodesOf(clicked)
      xp == generated.locators[Len(generated.locators)].path
      sameTag(n) == \/ \E i \in 1..Len(n.before) : n.before[i] = n.tag
                    \/ \E i \in 1..Len(n.after) : n.after[i] = n.tag
  IN (/\ generated # NotCalled /\ ~generated.threw
      /\ clicked.testid = ""
      /\ (clicked.id = "" \/ isDynamicId(clicked.id))) =>
       /\ xp.xpath = "path"
       /\ Len(xp.steps) <= 5
       /\ Len(xp.steps) <= Len(nodes)
       /\ \A k \in 1..Len(xp.steps) :
            /\ xp.steps[Len(xp.steps) - k + 1].tag = nodes[k].tag
            /\ xp.steps[Len(xp.steps) - k + 1].position # 0 => sameTag(nodes[k])

\* C30, amended: for a clicked element without test id and without a stable
\* id the xpath is a path of at most 5 steps, the element and its nearest
\* ancestors, and a step carries a [position] predicate exactly where the
\* node has a sibling element, of whatever tag; the position is one more than
\* the number of its preceding siblings of the same tag.
C30_PositionWhereAnySibling ==
  LET nodes == nodesOf(clicked)
      xp == generated.locators[Len(generated.locators)].path
      preceding(n) == Cardinality({i \in 1..Len(n.before) : n.before[i] = n.tag})
  IN (/\ generated # NotCalled /\ ~generated.threw
      /\ clicked.testid = ""
      /\ (clicked.id = "" \/ isDynamicId(clicked.id))) =>
       /\ xp.xpath = "path"
       /\ Len(xp.steps) <= 5
       /\ Len(xp.steps) <= Len(nodes)
       /\ (Len(nodes) >= 5 => Len(xp.steps) = 5)
       /\ \A k \in 1..Len(xp.steps) :
            LET step == xp.steps[Len(xp.steps) - k + 1]
                n == nodes[k]
            IN /\ step.tag = n.tag
               /\ step.position # 0 <=> (n.before # <<>> \/ n.after # <<>>)
               /\ step.position # 0 => step.position = 1 + preceding(n)

\* the second click, on the button five levels below the root, was recorded with a
\* path of five steps, whose SECTION, a node with a NAV as its only sibling,
\* carries the position 1
C30_Witness ==
  /\ clicked = DeepButton
  /\ clicks = 2
  /\ recorder.isRecording
  /\ generated # NotCalled
  /\ ~generated.threw
  /\ LET xp == generated.locators[Len(generated.locators)].path
     IN /\ Len(xp.steps) = 5
        /\ xp.steps[3] = [tag |-> "SECTION", position |-> 1]
        /\ xp.steps[1].tag = "BODY"

\* C31: the list generateLocators returns is ordered by the fixed ranking
\* role, data-testid, id, href, title, text, web-search, composer-plus, css,
\* xpath: the ranks of its locators increase strictly (a subsequence of the
\* ranking, each type at most once, css and xpath last), and every type
\* whose emission condition holds for the element is in the list.
C31_LocatorsRanked ==
  LET ranking == <<"role", "data-testid", "id", "href", "title", "text",
                   "web-search", "composer-plus", "css", "xpath">>
      rank(type) == CHOOSE r \in 1..Len(ranking) : ranking[r] = type
      list == generated.locators
      has(type) == \E j \in 1..Len(list) : list[j].type = type
      e == clicked
  IN (generated # NotCalled /\ ~generated.threw) =>
       /\ \A j \in 1..Len(list) : list[j].type \in {ranking[r] : r \in 1..Len(ranking)}
       /\ \A j \in 1..(Len(list) - 1) : rank(list[j].type) < rank(list[j + 1].type)
       /\ (e.role # "" /\ (e.name # "" \/ e.aria # "" \/ e.text # "")) => has("role")
       /\ e.testid # "" => has("data-testid")
       /\ (e.id # "" /\ ~isDynamicId(e.id)) => has("id")
       /\ (e.tag = "A" /\ e.href \notin {"", "/"}) => has("href")
       /\ e.title # "" => has("title")
       /\ (e.text # "" /\ e.text \notin LongTexts) => has("text")
       /\ isWebSearchButton(e) => has("web-search")
       /\ isComposerPlusButton(e) => has("composer-plus")
       /\ has("css")
       /\ has("xpath")

\* the click on the link to which every locator type applies gave a list of
\* all ten locators
C31_Witness ==
  /\ clicked = FullLink
  /\ ~generated.threw
  /\ Len(generated.locators) = 10
  /\ generated.locators[1].type = "role"
  /\ generated.locators[10].type = "xpath"

(***************************************************************************)
(* Replay cursor: properties                                               *)
(***************************************************************************)
\* C32: while a replay is in progress the steps being replayed are not
\* replaced, and the index stays within them: 0 <= index <= number of replay
\* steps. It fails: a trace file loaded during the replay replaces
\* replaySteps, and a shorter trace leaves the index beyond its end.
C32_CursorOwnedByEngine ==
  /\ [](isReplaying => (0 <= currentReplayStep /\ currentReplayStep <= Len(replaySteps)))
  /\ [][(isReplaying /\ isReplaying') => replaySteps' = replaySteps]_vars

(***************************************************************************)
(* Navigation observer: properties                                         *)
(***************************************************************************)
\* C33: while recording, a change of the URL to one that is not the same chat
\* thread as the last recorded URL, after a step that is no press step,
\* appends exactly one navigate step with the new URL; a mutation that
\* leaves the URL unchanged appends nothing. Two URLs are the same thread
\* when both are threads of the chat site with the same thread id. It fails
\* between two pages of the chat site that are no threads.
C33_UrlChangeAppendsNavigate ==
  /\ [][LET sameThread(u, v) ==
             /\ u.host \in {"chatgpt.com", "openai.com"}
             /\ v.host = "chatgpt.com"
             /\ u.chat # Null
             /\ u.chat = v.chat
        IN (event' = "url" /\ recorder.isRecording
              /\ ~sameThread(href', recorder.lastUrl)
              /\ recorder.steps[Len(recorder.steps)].type # "press") =>
             /\ Len(recorder'.steps) = Len(recorder.steps) + 1
             /\ SubSeq(recorder'.steps, 1, Len(recorder.steps)) = recorder.steps
             /\ recorder'.steps[Len(recorder'.steps)].type = "navigate"
             /\ recorder'.steps[Len(recorder'.steps)].url = href']_vars
  /\ [][event' = "mutation" => recorder'.steps = recorder.steps]_vars


(***************************************************************************)
(* Recording sessions: properties                                          *)
(***************************************************************************)
\* C34: a START_RECORDING request that could not be delivered is surfaced to
\* startRecording: whenever startRecording has finished and the
\* orchestrator's isRecording is true, the executor of the active tab has
\* received the START_RECORDING request of that call.
C34_StartFailureSurfaced ==
  (thisIsRecording /\ recordPc = "idle") => started

\* C35: at most one handleMessage listener is registered for the executor's
\* pushes, whatever the number of sessions, and none once stopRecording has
\* run.
C35_OneListenerAtMost ==
  /\ Cardinality(handlers) <= 1
  /\ (~thisIsRecording /\ recordPc = "idle") => handlers = {}

\* C36: the orchestrator's step list mirrors the executor's: in a session
\* that the executor has joined, once startRecording has finished, the
\* orchestrator holds the steps the executor appended, each once and in the
\* same order; and after the executor has processed STOP_RECORDING the two
\* lists are equal.
C36_TraceMirrored ==
  /\ (thisIsRecording /\ recordPc = "idle" /\ started /\ recorder.isRecording)
       => thisSteps = recorder.steps
  /\ (pushed # <<>> /\ pushed[1].type = "RECORDING_STOPPED")
       => thisSteps = recorder.steps


(***************************************************************************)
(* The click of a replay: properties                                       *)
(***************************************************************************)
\* C37: when resolveLocator found the target by a strategy that yields the
\* element itself, the value that travels in LOCATOR_RESOLVED and back in
\* REPLAY_CLICK still designates that element: the click is dispatched on
\* the element the resolver found and REPLAY_CLICK answers success = true.
C37_ElementSurvivesRelay ==
  (clickReplay.pc = "clicked" /\ isElement(resolution.result)) =>
    /\ clickReplay.success
    /\ clickReplay.target = resolution.result


(***************************************************************************)
(* Message delivery: one call, one execution                               *)
(***************************************************************************)
\* C38: one call of sendMessageToContentScript makes the executor perform
\* the requested action at most once, also when the first attempt was
\* received and executed and only its response was lost.
C38_ExecutedAtMostOnce ==
  sendMsg \in {"REPLAY_CLICK", "REPLAY_TYPE", "REPLAY_KEY_PRESS"} => handled <= 1


(***************************************************************************)
(* Capture while not recording: properties                                 *)
(***************************************************************************)
\* C39: while the executor is not recording, no capture handler has an
\* effect on the trace: a click, an input event, a special key press, a URL
\* change or an addStep call leaves the step list, the last-emitted text and
\* the last step type unchanged, arms no debounce timer and pushes no
\* RECORD_STEP message to the orchestrator.
C39_IdleCaptureHasNoEffect ==
  /\ [](~recorder.isRecording =>
          \A step \in {StepPress("Tab"), StepType("a"), StepNavigate(href)} :
            addStep(recorder, step) = recorder)
  /\ [][(~recorder.isRecording /\ event' # "start") =>
          /\ recorder'.steps = recorder.steps
          /\ recorder'.lastTypedText = recorder.lastTypedText
          /\ recorder'.lastRecordedEvent = recorder.lastRecordedEvent
          /\ ~timer'.armed
          /\ \A i \in 1..Len(pushed') : pushed'[i].type # "RECORD_STEP"]_vars

\* a recording was made and stopped; since then the user has typed into the
\* field, and the page has just changed its URL: the trace is the one the
\* recording left, the typed text was not emitted and nothing was pushed
C39_Witness ==
  /\ ~recorder.isRecording
  /\ Len(recorder.steps) = 2
  /\ recorder.lastTypedText # field
  /\ field # ""
  /\ ~timer.armed
  /\ event = "url"
  /\ recorder.lastUrl # href
  /\ pushed = <<>>

====
